---- MODULE Spec2Model ----
(***************************************************************************)
(* A model of the adaptive structuring engine (adaptive_pdf_to_json.py,    *)
(* build_json_structure and its helpers) and of the domain field resolver  *)
(* (extract_project_data.py, parse_project_from_json).                     *)
(*                                                                         *)
(* Text is a sequence of characters; a character is a one-character        *)
(* string, except the two non-ASCII letters, written "U+00C9" (capital E   *)
(* acute) and "U+00E9" (small e acute).  A Python dict is a function whose *)
(* DOMAIN is its key set; a dict whose iteration order matters (sections)  *)
(* is a sequence of records in insertion order.                            *)
(***************************************************************************)
EXTENDS Integers, Sequences, FiniteSets, TLC

VARIABLES
    pc,        \* position of build_json_structure: idle, pages, lines, tables, done
    asm,       \* the frame of build_json_structure in the running process
    iso,       \* the frame of the same call made in a process that assembled nothing before
    tables,    \* the tables argument of the call, drawn when the table loop first reads it
    table_pos, \* index of the next table of the loop at line 452
    lines_read,\* number of lines iterated in this document
    warm,      \* TRUE once an earlier call of this process has returned a record with sections
    hist,      \* history: section active when each paragraph of the page was flushed,
               \* and the page that contributed each entry of a section's content
    ppc,       \* position of parse_project_from_json
    json_data, \* its argument
    kv,        \* its local kv (key_value_pairs)
    all_text,  \* its local all_text
    project,   \* its local project, the record it returns
    boundary_coords, \* its local boundary_coords
    page_lines,\* history: the lines of the page iterated so far, when one page is followed
    tpc,       \* position of extract_tables_pdfplumber
    page_table,\* the grid page.extract_tables() delivered for the one table of the page
    extracted, \* its local tables, the list it returns
    dpc,       \* position of adaptive_pdf_to_json
    pdf,       \* the pages of the file, as pdfplumber and the OCR engine deliver them
    modules,   \* which of the optional imports succeeded
    is_scanned,\* its local is_scanned
    raw_text_by_page, \* its local raw_text_by_page
    structured_data,  \* its local structured_data
    ocr_pages, \* pages_data of extract_with_ocr
    document,  \* the record build_json_structure returned to it
    fpc,       \* position of a call of detect_heading or of extract_key_value_pairs
    fargs,     \* the arguments of the call
    fresult,   \* the value it returned
    bpc,       \* position of a batch run
    program,   \* which batch loop runs
    skip_existing, \* its argument skip_existing
    pdf_files, \* the files its loop iterates, in order
    file_idx,  \* index of the next file of the loop
    stats,     \* its counters
    json_store,\* the output JSON of each file name, << >> when there is none
    converted, \* history: the files of this run adaptive_pdf_to_json was called on
    run_no,    \* history: the number of this run
    run_start  \* history: the store when this run started and the counters of the run before

avars == <<pc, asm, iso, tables, table_pos, lines_read, warm, hist>>
pvars == <<ppc, json_data, kv, all_text, project, boundary_coords>>
xvars == <<page_lines, tpc, page_table, extracted>>
dvars == <<dpc, pdf, modules, is_scanned, raw_text_by_page, structured_data, ocr_pages, document>>
fvars == <<fpc, fargs, fresult>>
bvars == <<bpc, program, skip_existing, pdf_files, file_idx, stats, json_store, converted,
           run_no, run_start>>
nvars == <<dvars, fvars, bvars>>
vars == <<avars, pvars, xvars, nvars>>

\* Python's None; it stands where a string or a dict may stand, and no section key is empty
None == <<>>

(***************************************************************************)
(* Bounds of the model.                                                    *)
(***************************************************************************)
MaxPages == 2
MaxLines == 3
MaxTables == 2

(***************************************************************************)
(* Characters and the str / re primitives the code uses.                   *)
(***************************************************************************)
UpperChars == {"A", "B", "U+00C9"}
LowerChars == {"a", "b", "k", "v", "p", "x", "u", "n", "m", "e", "d", "s", "c", "t", "i", "o",
               "U+00E9"}
AsciiLowerChars == LowerChars \ {"U+00E9"}
DigitChars == {"0", "1", "2", "3", "4", "5", "6", "7", "8", "9"}
SpaceChars == {" ", "\t"}

\* str.lower() on one character
LowerOf(c) ==
    CASE c = "A" -> "a"
      [] c = "B" -> "b"
      [] c = "U+00C9" -> "U+00E9"
      [] OTHER -> c

\* \w of a str pattern: Unicode letters, digits and the underscore
IsWordChar(c) == c \in UpperChars \cup LowerChars \cup DigitChars \cup {"_"}

\* \s
IsSpaceChar(c) == c \in SpaceChars

RECURSIVE StripLeft(_, _)
StripLeft(s, cs) ==
    IF s # <<>> /\ Head(s) \in cs THEN StripLeft(Tail(s), cs) ELSE s

RECURSIVE StripRight(_, _)
StripRight(s, cs) ==
    IF s # <<>> /\ s[Len(s)] \in cs THEN StripRight(SubSeq(s, 1, Len(s) - 1), cs) ELSE s

\* str.strip(chars)
StripChars(s, cs) == StripRight(StripLeft(s, cs), cs)

\* str.strip()
Strip(s) == StripChars(s, SpaceChars)

\* re.sub(r'[^\w\s]', '', s)
RemoveSpecial(s) == SelectSeq(s, LAMBDA c : IsWordChar(c) \/ IsSpaceChar(c))

\* str.lower()
Lower(s) == [i \in 1..Len(s) |-> LowerOf(s[i])]

\* str.replace(' ', '_')
SpacesToUnderscores(s) == [i \in 1..Len(s) |-> IF s[i] = " " THEN "_" ELSE s[i]]

\* re.sub(r'_+', '_', s)
RECURSIVE CollapseUnderscores(_)
CollapseUnderscores(s) ==
    IF Len(s) < 2 THEN s
    ELSE IF s[1] = "_" /\ s[2] = "_" THEN CollapseUnderscores(Tail(s))
    ELSE <<s[1]>> \o CollapseUnderscores(Tail(s))

\* " ".join(parts)
RECURSIVE JoinSpace(_)
JoinSpace(parts) ==
    IF parts = <<>> THEN <<>>
    ELSE IF Len(parts) = 1 THEN parts[1]
    ELSE parts[1] \o <<" ">> \o JoinSpace(Tail(parts))

Contains(s, c) == \E i \in 1..Len(s) : s[i] = c

\* sub in s, for a string sub
ContainsSub(s, sub) ==
    \E i \in 1..(Len(s) - Len(sub) + 1) : SubSeq(s, i, i + Len(sub) - 1) = sub

MinOf(S) == CHOOSE x \in S : \A y \in S : x <= y

\* \s of the patterns that see whole texts
WhiteChars == SpaceChars \cup {"\n"}

\* length of the longest run of tokens of S that starts at text[i]
RECURSIVE RunLen(_, _, _)
RunLen(text, i, S) ==
    IF i <= Len(text) /\ text[i] \in S THEN 1 + RunLen(text, i + 1, S) ELSE 0

DigitValue(c) ==
    CASE c = "0" -> 0 [] c = "1" -> 1 [] c = "2" -> 2 [] c = "3" -> 3 [] c = "4" -> 4
      [] c = "5" -> 5 [] c = "6" -> 6 [] c = "7" -> 7 [] c = "8" -> 8 [] c = "9" -> 9

UnnamedSection == <<"u", "n", "n", "a", "m", "e", "d", "_", "s", "e", "c", "t", "i", "o", "n">>

normalize_section_name(heading) ==
    LET clean1 == RemoveSpecial(heading)
        clean2 == SpacesToUnderscores(Strip(Lower(clean1)))
        clean3 == CollapseUnderscores(clean2)
        clean4 == StripChars(clean3, {"_"})
    IN IF clean4 # <<>> THEN clean4 ELSE UnnamedSection

(***************************************************************************)
(* Dicts.                                                                  *)
(***************************************************************************)
EmptyDict == [k \in {} |-> <<>>]

\* d[k] = v
DictPut(d, k, v) == [x \in (DOMAIN d) \cup {k} |-> IF x = k THEN v ELSE d[x]]

\* d.update(e)
DictUpdate(d, e) == [x \in (DOMAIN d) \cup (DOMAIN e) |-> IF x \in DOMAIN e THEN e[x] ELSE d[x]]

(***************************************************************************)
(* extract_key_value_pairs, on the text of one line (no newline in it).    *)
(***************************************************************************)
MaxKeyLen == 100

\* re.sub(r'[^\w\s]', '', key).strip().lower().replace(' ', '_')
CleanKey(key) == SpacesToUnderscores(Lower(Strip(RemoveSpecial(key))))

\* The one match of pattern1 in a line: the key starts at the first character
\* that is not a colon and runs to the next colon, the value is the rest of
\* the line, which the pattern requires to be non-empty.
Pattern1Match(text) ==
    LET starts == {i \in 1..Len(text) : text[i] # ":"}
        i0 == MinOf(starts)
        colons == {c \in 1..Len(text) : c > i0 /\ text[c] = ":"}
        c0 == MinOf(colons)
    IN IF starts = {} \/ colons = {} THEN <<>>
       ELSE IF c0 = Len(text) THEN <<>>
       ELSE <<[key |-> Strip(SubSeq(text, i0, c0 - 1)),
               value |-> Strip(SubSeq(text, c0 + 1, Len(text)))]>>

\* The one match of pattern2 in a line, searched from position from: the key
\* is a run without a dash, then whitespace, a dash, whitespace and a
\* non-empty value running to the end of the line.
RECURSIVE Pattern2Match(_, _)
Pattern2Match(text, from) ==
    LET starts == {i \in from..Len(text) : text[i] # "-"}
        i0 == MinOf(starts)
        dashes == {d \in 1..Len(text) : d > i0 /\ text[d] = "-"}
        d0 == MinOf(dashes)
    IN IF starts = {} \/ dashes = {} THEN <<>>
       ELSE IF /\ d0 >= i0 + 2
               /\ IsSpaceChar(text[d0 - 1])
               /\ d0 + 2 <= Len(text)
               /\ IsSpaceChar(text[d0 + 1])
            THEN <<[key |-> Strip(SubSeq(text, i0, d0 - 1)),
                    value |-> Strip(SubSeq(text, d0 + 1, Len(text)))]>>
            ELSE Pattern2Match(text, d0 + 1)

\* the key a match is stored under, or <<>> when the pair is discarded
StoredKey(m) ==
    IF m.key # <<>> /\ m.value # <<>> /\ Len(m.key) < MaxKeyLen THEN CleanKey(m.key) ELSE <<>>

extract_key_value_pairs(text) ==
    LET m1 == Pattern1Match(text)
        kv1 == IF m1 # <<>> /\ StoredKey(m1[1]) # <<>>
               THEN DictPut(EmptyDict, StoredKey(m1[1]), m1[1].value)
               ELSE EmptyDict
        m2 == Pattern2Match(text, 1)
    IN IF m2 # <<>> /\ StoredKey(m2[1]) # <<>> /\ StoredKey(m2[1]) \notin DOMAIN kv1
       THEN DictPut(kv1, StoredKey(m2[1]), m2[1].value)
       ELSE kv1

(***************************************************************************)
(* build_json_structure: the frame of one call.                            *)
(***************************************************************************)
NewPageContent(page_num) ==
    [page_number |-> page_num, headings |-> <<>>, key_value_pairs |-> EmptyDict,
     paragraphs |-> <<>>, lists |-> <<>>]

\* a variant that starts a call with the sections the process assembled before
LeakedSections(process) == IF process = None THEN <<>> ELSE process.result.sections

\* result["sections"] = {} at the start of a call; process is the state the
\* calling process holds, which the code does not read
NewSections(process) == <<>>

\* current_section = None at the start of a call
NewCurrentSection(process) == None

\* result["detected_tables"] is the tables argument itself: the variable tables
NewResult(process) ==
    [extracted_pages |-> <<>>,
     key_value_pairs |-> EmptyDict,
     sections |-> NewSections(process),
     unstructured_text |-> <<>>]

\* the locals of build_json_structure before the page loop
NewFrame(process) ==
    [result |-> NewResult(process),
     current_section |-> NewCurrentSection(process),
     page_content |-> NewPageContent(0),
     current_paragraph |-> <<>>,
     current_list |-> <<>>,
     in_list |-> FALSE,
     line_info |-> None]

\* a process that has made no call
ColdProcess == NewFrame(None)

\* sections is a dict in insertion order: a sequence of entries, one per key
SectionKeys(sections) == {sections[i].key : i \in 1..Len(sections)}

SectionIndex(sections, key) == CHOOSE i \in 1..Len(sections) : sections[i].key = key

SectionOf(sections, key) == sections[SectionIndex(sections, key)]

\* a variant that builds a new entry for a heading whose key is already open
OpenSectionReset(sections, section_key, text) ==
    LET fresh == [key |-> section_key, heading |-> text, content |-> <<>>,
                  key_value_pairs |-> EmptyDict, tables |-> <<>>]
    IN IF section_key \in SectionKeys(sections)
       THEN [sections EXCEPT ![SectionIndex(sections, section_key)] = fresh]
       ELSE Append(sections, fresh)

\* if section_key not in result["sections"]: result["sections"][section_key] = {...}
OpenSection(sections, section_key, text) ==
    IF section_key \in SectionKeys(sections) THEN sections
    ELSE Append(sections, [key |-> section_key, heading |-> text, content |-> <<>>,
                           key_value_pairs |-> EmptyDict, tables |-> <<>>])

\* if current_paragraph: paragraphs.append(" ".join(current_paragraph)); current_paragraph = []
FlushParagraph(f) ==
    IF f.current_paragraph # <<>>
    THEN [f EXCEPT !.page_content.paragraphs = Append(@, JoinSpace(f.current_paragraph)),
                   !.current_paragraph = <<>>]
    ELSE f

\* if current_list: lists.append(current_list); current_list = []
FlushList(f) ==
    IF f.current_list # <<>>
    THEN [f EXCEPT !.page_content.lists = Append(@, f.current_list),
                   !.current_list = <<>>]
    ELSE f

\* the top of the page loop
BeginPage(f, page_num) ==
    [f EXCEPT !.page_content = NewPageContent(page_num),
              !.current_paragraph = <<>>,
              !.current_list = <<>>,
              !.in_list = FALSE]

\* the heading branch
OnHeading(f, text) ==
    LET g == FlushList(FlushParagraph(f))
        section_key == normalize_section_name(text)
    IN [g EXCEPT !.in_list = FALSE,
                 !.result.sections = OpenSection(@, section_key, text),
                 !.current_section = section_key,
                 !.page_content.headings = Append(@, text)]

\* a variant that stores the pairs at the top level whatever the section
StoreKeyValuesTopLevel(f, kv_pairs) ==
    [f EXCEPT !.result.key_value_pairs = DictUpdate(@, kv_pairs),
              !.page_content.key_value_pairs = DictUpdate(@, kv_pairs)]

\* the loop over kv_pairs.items(): into the current section if there is one,
\* else into the top level; into the page in both cases
StoreKeyValues(f, kv_pairs) ==
    IF f.current_section # None
    THEN [f EXCEPT !.result.sections[SectionIndex(f.result.sections, f.current_section)]
                        .key_value_pairs = DictUpdate(@, kv_pairs),
                   !.page_content.key_value_pairs = DictUpdate(@, kv_pairs)]
    ELSE [f EXCEPT !.result.key_value_pairs = DictUpdate(@, kv_pairs),
                   !.page_content.key_value_pairs = DictUpdate(@, kv_pairs)]

\* the key-value branch
OnKeyValue(f, text) == StoreKeyValues(f, extract_key_value_pairs(text))

\* the list branch
OnListItem(f, text) ==
    FlushParagraph([f EXCEPT !.in_list = TRUE, !.current_list = Append(@, text)])

\* a variant of the paragraph branch that leaves an open list open
OnParagraphKeepList(f, text) ==
    [f EXCEPT !.in_list = FALSE, !.current_paragraph = Append(@, text)]

\* the paragraph branch
OnParagraph(f, text) ==
    LET g == IF f.in_list THEN FlushList(f) ELSE f
    IN [g EXCEPT !.in_list = FALSE, !.current_paragraph = Append(@, text)]

\* a variant that sends the paragraphs of the page to unstructured_text in every case
DistributeParagraphsUnstructured(f) ==
    LET paras == f.page_content.paragraphs
    IN [f EXCEPT !.result.unstructured_text =
                     @ \o [i \in 1..Len(paras) |->
                              [page |-> f.page_content.page_number, text |-> paras[i]]]]

\* for para in page_content["paragraphs"]: to the current section or to unstructured_text
DistributeParagraphs(f) ==
    LET paras == f.page_content.paragraphs
    IN IF f.current_section # None
       THEN [f EXCEPT !.result.sections[SectionIndex(f.result.sections, f.current_section)]
                           .content = @ \o paras]
       ELSE [f EXCEPT !.result.unstructured_text =
                           @ \o [i \in 1..Len(paras) |->
                                    [page |-> f.page_content.page_number, text |-> paras[i]]]]

\* the bottom of the page loop
FinishPage(f) ==
    LET g == DistributeParagraphs(FlushList(FlushParagraph(f)))
    IN [g EXCEPT !.result.extracted_pages = Append(@, g.page_content)]

\* a variant that picks the first section that holds no table yet
TableTargetNextFree(sections, table) ==
    LET free == {i \in 1..Len(sections) : sections[i].tables = <<>>}
    IN IF free = {} THEN 0 ELSE MinOf(free)

\* the section the inner loop of the table loop appends the table to: the
\* first one of sections.items(), since table_added is False when the loop
\* is entered; 0 when there is no section
TableTarget(sections, table) == IF sections = <<>> THEN 0 ELSE 1

\* one iteration of: for table in tables
AssociateOne(f, table) ==
    LET t == TableTarget(f.result.sections, table)
    IN IF t = 0 THEN f
       ELSE [f EXCEPT !.result.sections[t].tables = Append(@, table)]

(***************************************************************************)
(* Line tests of the page loop.                                            *)
(***************************************************************************)
BulletChar == "U+2022"
ArrowChar == "U+2192"
ListMarkerChars == {BulletChar, "-", "*", "+", "."} \cup DigitChars

\* ":" in text or " - " in text or the arrow in text
IsKeyValueLine(text) ==
    Contains(text, ":") \/ ContainsSub(text, <<" ", "-", " ">>) \/ Contains(text, ArrowChar)

\* re.match(r'^[\s]*[marker]\s+', text) or text.startswith("- ") or text.startswith(bullet)
IsListLine(text) ==
    LET t == StripLeft(text, SpaceChars)
    IN \/ Len(t) >= 2 /\ t[1] \in ListMarkerChars /\ IsSpaceChar(t[2])
       \/ Len(text) >= 2 /\ text[1] = "-" /\ text[2] = " "
       \/ Len(text) >= 1 /\ text[1] = BulletChar

\* text = line_info.get("text", "").strip()
LineText(line) == Strip(line.text)

(***************************************************************************)
(* The lines the upstream extractor delivers: text and the is_heading flag *)
(* it computed (any short non-empty line can carry it, through boldness).  *)
(***************************************************************************)
LineSamples ==
    { [text |-> <<"A", " ", "b">>, is_heading |-> TRUE],
      [text |-> <<"a", " ", "B", "!">>, is_heading |-> TRUE],
      [text |-> <<"!">>, is_heading |-> TRUE],
      [text |-> <<"A", "\t", "b">>, is_heading |-> TRUE],
      [text |-> <<"k", ":", "v">>, is_heading |-> FALSE],
      [text |-> <<"-", " ", "x">>, is_heading |-> FALSE],
      [text |-> <<"p">>, is_heading |-> FALSE],
      [text |-> <<" ">>, is_heading |-> FALSE] }

(***************************************************************************)
(* History kept beside the frame.                                          *)
(***************************************************************************)
NoHistory == [flush_owner |-> <<>>, content_page |-> EmptyDict]

\* the paragraphs a step added to the page were flushed under section owner
NoteFlushes(h, before, after, owner) ==
    [h EXCEPT !.flush_owner =
        @ \o [i \in 1..(Len(after.page_content.paragraphs) - Len(before.page_content.paragraphs))
                 |-> owner]]

\* the page's paragraphs went to the content of section key
NoteContent(h, f) ==
    IF f.current_section = None THEN h
    ELSE LET old == IF f.current_section \in DOMAIN h.content_page
                    THEN h.content_page[f.current_section] ELSE <<>>
             n == Len(FlushParagraph(f).page_content.paragraphs)
         IN [h EXCEPT !.content_page =
                DictPut(@, f.current_section,
                        old \o [i \in 1..n |-> f.page_content.page_number])]

(***************************************************************************)
(* The state machine of build_json_structure.                              *)
(***************************************************************************)
AssemblerIdle ==
    /\ pc = "idle"
    /\ asm = ColdProcess
    /\ iso = ColdProcess
    /\ tables = <<>>
    /\ table_pos = 1
    /\ lines_read = 0
    /\ warm = FALSE
    /\ hist = NoHistory

\* a call of build_json_structure, the first of the process or a later one
StartDocument ==
    /\ pc \in {"idle", "done"}
    /\ tables' = <<>>
    /\ asm' = NewFrame(asm)
    /\ iso' = NewFrame(ColdProcess)
    /\ warm' = (warm \/ (pc = "done" /\ asm.result.sections # <<>>))
    /\ pc' = "pages"
    /\ table_pos' = 1
    /\ lines_read' = 0
    /\ hist' = NoHistory
    /\ UNCHANGED <<pvars, xvars, nvars>>

StartPage ==
    /\ pc = "pages"
    /\ Len(asm.result.extracted_pages) < MaxPages
    /\ asm' = BeginPage(asm, Len(asm.result.extracted_pages) + 1)
    /\ iso' = BeginPage(iso, Len(iso.result.extracted_pages) + 1)
    /\ hist' = [hist EXCEPT !.flush_owner = <<>>]
    /\ pc' = "lines"
    /\ UNCHANGED <<tables, table_pos, lines_read, warm>>
    /\ UNCHANGED <<pvars, xvars, nvars>>

\* one iteration of the line loop, the frame going from f to Step(f, text)
LineStep(line, Step(_, _)) ==
    /\ asm' = [Step(asm, LineText(line)) EXCEPT !.line_info = line]
    /\ iso' = [Step(iso, LineText(line)) EXCEPT !.line_info = line]
    /\ hist' = NoteFlushes(hist, asm, asm', asm.current_section)
    /\ lines_read' = lines_read + 1
    /\ UNCHANGED <<pc, tables, table_pos, warm>>
    /\ UNCHANGED <<pvars, xvars, nvars>>

Unchanged(f, text) == f

BlankLine ==
    /\ pc = "lines" /\ lines_read < MaxLines
    /\ \E line \in LineSamples :
          /\ LineText(line) = <<>>
          /\ LineStep(line, Unchanged)

HeadingLine ==
    /\ pc = "lines" /\ lines_read < MaxLines
    /\ \E line \in LineSamples :
          /\ LineText(line) # <<>>
          /\ line.is_heading
          /\ LineStep(line, OnHeading)

KeyValueLine ==
    /\ pc = "lines" /\ lines_read < MaxLines
    /\ \E line \in LineSamples :
          /\ LineText(line) # <<>>
          /\ ~line.is_heading
          /\ IsKeyValueLine(LineText(line))
          /\ LineStep(line, OnKeyValue)

ListLine ==
    /\ pc = "lines" /\ lines_read < MaxLines
    /\ \E line \in LineSamples :
          /\ LineText(line) # <<>>
          /\ ~line.is_heading
          /\ ~IsKeyValueLine(LineText(line))
          /\ IsListLine(LineText(line))
          /\ LineStep(line, OnListItem)

ParagraphLine ==
    /\ pc = "lines" /\ lines_read < MaxLines
    /\ \E line \in LineSamples :
          /\ LineText(line) # <<>>
          /\ ~line.is_heading
          /\ ~IsKeyValueLine(LineText(line))
          /\ ~IsListLine(LineText(line))
          /\ LineStep(line, OnParagraph)

EndPage ==
    /\ pc = "lines"
    /\ asm' = FinishPage(asm)
    /\ iso' = FinishPage(iso)
    /\ hist' = NoteContent(NoteFlushes(hist, asm, asm', asm.current_section), asm)
    /\ pc' = "pages"
    /\ UNCHANGED <<tables, table_pos, lines_read, warm>>
    /\ UNCHANGED <<pvars, xvars, nvars>>

\* the page loop is over; the table loop starts reading the tables argument
EndPages ==
    /\ pc = "pages"
    /\ pc' = "tables"
    /\ \E n \in 0..MaxTables :
          tables' = [i \in 1..n |-> [page_number |-> 1, table_index |-> i - 1]]
    /\ UNCHANGED <<asm, iso, table_pos, lines_read, warm, hist>>
    /\ UNCHANGED <<pvars, xvars, nvars>>

AssociateTable ==
    /\ pc = "tables"
    /\ table_pos <= Len(tables)
    /\ asm' = AssociateOne(asm, tables[table_pos])
    /\ iso' = AssociateOne(iso, tables[table_pos])
    /\ table_pos' = table_pos + 1
    /\ UNCHANGED <<pc, tables, lines_read, warm, hist>>
    /\ UNCHANGED <<pvars, xvars, nvars>>

Return ==
    /\ pc = "tables"
    /\ table_pos > Len(tables)
    /\ pc' = "done"
    /\ UNCHANGED <<asm, iso, tables, table_pos, lines_read, warm, hist>>
    /\ UNCHANGED <<pvars, xvars, nvars>>

(***************************************************************************)
(* One page followed line by line: the line loop and the bottom of the     *)
(* page loop of build_json_structure, on the first page of a call.         *)
(***************************************************************************)
MaxPageLines == 5

\* lines whose text passes several of the tests of the if / elif chain
PageLineSamples ==
    { [text |-> <<"A", " ", "b">>, is_heading |-> TRUE],
      [text |-> <<"-", " ", "A", ":", "b">>, is_heading |-> TRUE],
      [text |-> <<"k", ":", "v">>, is_heading |-> FALSE],
      [text |-> <<"-", " ", "k", ":", "w">>, is_heading |-> FALSE],
      [text |-> <<"A", " ", " ", "b", ":", "v">>, is_heading |-> FALSE],
      [text |-> <<"-", " ", "x">>, is_heading |-> FALSE],
      [text |-> <<"p">>, is_heading |-> FALSE] }

\* a variant of the chain that tests the list markers before the key-value separators
LineKindListFirst(line) ==
    IF LineText(line) = <<>> THEN "blank"
    ELSE IF line.is_heading THEN "heading"
    ELSE IF IsListLine(LineText(line)) THEN "list"
    ELSE IF IsKeyValueLine(LineText(line)) THEN "key_value"
    ELSE "paragraph"

\* the branch of the chain if not text / if is_heading / elif / elif / else a line takes
LineKind(line) ==
    IF LineText(line) = <<>> THEN "blank"
    ELSE IF line.is_heading THEN "heading"
    ELSE IF IsKeyValueLine(LineText(line)) THEN "key_value"
    ELSE IF IsListLine(LineText(line)) THEN "list"
    ELSE "paragraph"

\* one iteration of: for line_info in lines
OnLine(f, line) ==
    LET text == LineText(line)
        kind == LineKind(line)
        g == CASE kind = "blank" -> f
               [] kind = "heading" -> OnHeading(f, text)
               [] kind = "key_value" -> OnKeyValue(f, text)
               [] kind = "list" -> OnListItem(f, text)
               [] kind = "paragraph" -> OnParagraph(f, text)
    IN [g EXCEPT !.line_info = line]

PageIdle == page_lines = <<>>

\* the first page of the first call of a process has just been entered
PageEntered ==
    /\ pc = "lines"
    /\ asm = BeginPage(NewFrame(ColdProcess), 1)
    /\ iso = ColdProcess
    /\ tables = <<>>
    /\ table_pos = 1
    /\ lines_read = 0
    /\ warm = FALSE
    /\ hist = NoHistory
    /\ page_lines = <<>>

ReadLine ==
    /\ pc = "lines"
    /\ Len(page_lines) < MaxPageLines
    /\ \E line \in PageLineSamples :
          /\ asm' = OnLine(asm, line)
          /\ page_lines' = Append(page_lines, line)
    /\ UNCHANGED <<pc, iso, tables, table_pos, lines_read, warm, hist>>
    /\ UNCHANGED <<pvars, tpc, page_table, extracted, nvars>>

ClosePage ==
    /\ pc = "lines"
    /\ asm' = FinishPage(asm)
    /\ pc' = "pages"
    /\ UNCHANGED <<iso, tables, table_pos, lines_read, warm, hist>>
    /\ UNCHANGED <<pvars, xvars, nvars>>

(***************************************************************************)
(* The if / elif chain of the line loop on the lines that begin with a     *)
(* list marker or carry a separator without a pair: one page of a fresh    *)
(* call, followed line by line.                                            *)
(***************************************************************************)
MaxChainLines == 2

ChainLineSamples ==
    { [text |-> <<"1", ".", " ", "x">>, is_heading |-> FALSE],
      [text |-> <<"1", " ", "x">>, is_heading |-> FALSE],
      [text |-> <<"*", " ", "x">>, is_heading |-> FALSE],
      [text |-> <<"-", " ", "x">>, is_heading |-> FALSE],
      [text |-> <<"-", "x">>, is_heading |-> FALSE],
      [text |-> <<BulletChar, " ", "x">>, is_heading |-> FALSE],
      [text |-> <<BulletChar, "x">>, is_heading |-> FALSE],
      [text |-> <<ArrowChar>>, is_heading |-> FALSE],
      [text |-> <<"a", " ", ArrowChar, " ", "b">>, is_heading |-> FALSE],
      [text |-> <<"k", ":", " ">>, is_heading |-> FALSE],
      [text |-> <<"k", ":", "v">>, is_heading |-> FALSE],
      [text |-> <<"p">>, is_heading |-> FALSE],
      [text |-> <<"A", " ", "b">>, is_heading |-> TRUE] }

\* one iteration of the line loop on one of these lines
ReadChainLine ==
    /\ pc = "lines"
    /\ Len(page_lines) < MaxChainLines
    /\ \E line \in ChainLineSamples :
          /\ asm' = OnLine(asm, line)
          /\ page_lines' = Append(page_lines, line)
    /\ UNCHANGED <<pc, iso, tables, table_pos, lines_read, warm, hist>>
    /\ UNCHANGED <<pvars, tpc, page_table, extracted, nvars>>

(***************************************************************************)
(* extract_tables_pdfplumber, for a document of one page that holds one    *)
(* table.  A grid is a sequence of rows, a row a sequence of cells, a cell *)
(* a string; << >> is the cell that is None or the empty string, which the *)
(* code never tells apart.                                                 *)
(***************************************************************************)
MaxRows == 3

HeaderCellLen == 50
HeaderCells == 5

\* re.match(r'^\d+[.,]?\d*$', s)
IsDecimal(s) ==
    LET n1 == RunLen(s, 1, DigitChars)
        sep == IF n1 + 1 <= Len(s) /\ s[n1 + 1] \in {".", ","} THEN 1 ELSE 0
    IN n1 >= 1 /\ n1 + sep + RunLen(s, n1 + sep + 1, DigitChars) = Len(s)

\* cell.strip()
Trimmed(cell) == StripChars(cell, WhiteChars)

\* first_row and all(... for cell in first_row[:5] if cell)
HeaderLike(first_row) ==
    /\ first_row # <<>>
    /\ \A i \in 1..Len(first_row) :
          i <= HeaderCells /\ first_row[i] # <<>> =>
              /\ Len(Trimmed(first_row[i])) < HeaderCellLen
              /\ ~IsDecimal(Trimmed(first_row[i]))

\* f"col_{i}", for i < 10
ColName(i) ==
    <<"c", "o", "l", "_">>
        \o <<CHOOSE c \in DigitChars : DigitValue(c) = i>>

\* headers = [str(cell).strip() if cell else f"col_{i}" for i, cell in enumerate(first_row)]
Headers(first_row) ==
    [i \in 1..Len(first_row) |->
        IF first_row[i] # <<>> THEN Trimmed(first_row[i]) ELSE ColName(i - 1)]

\* row and any(cell for cell in row)
KeptRow(row) == \E i \in 1..Len(row) : row[i] # <<>>

\* row_dict, filled cell by cell up to cell n
RECURSIVE RowDict(_, _, _)
RowDict(headers, row, n) ==
    IF n = 0 THEN EmptyDict
    ELSE DictPut(RowDict(headers, row, n - 1),
                 IF n <= Len(headers) THEN headers[n] ELSE ColName(n - 1),
                 Trimmed(row[n]))

\* [str(cell).strip() if cell else "" for cell in row]
RowList(row) == [i \in 1..Len(row) |-> Trimmed(row[i])]

\* table_data
TableData(grid) ==
    LET kept == SelectSeq(grid, KeptRow)
        body == SelectSeq(Tail(grid), KeptRow)
    IN IF Len(grid) > 1
       THEN IF HeaderLike(grid[1])
            THEN [i \in 1..Len(body) |-> RowDict(Headers(grid[1]), body[i], Len(body[i]))]
            ELSE [i \in 1..Len(kept) |-> RowList(kept[i])]
       ELSE <<>>

\* the dict appended to tables
TableRecord(grid, page_num, table_idx) ==
    [page_number |-> page_num,
     table_index |-> table_idx,
     has_header |-> Len(grid) > 1 /\ HeaderLike(grid[1]),
     data |-> TableData(grid),
     row_count |-> Len(TableData(grid))]

LongCell == [i \in 1..HeaderCellLen |-> "x"]

RowSamples ==
    { <<<<"N", "a">>, <<"Q">>>>,
      <<<<"1", "2">>, <<"1", ".", "5">>>>,
      <<<<"N">>, <<>>>>,
      <<<<>>, <<>>>>,
      <<<<" ", "x", " ">>, <<"7">>>>,
      <<<<"N">>, <<"N">>, <<"N">>, <<"N">>, <<"N">>, <<"1", "2">>>>,
      <<LongCell>> }

Grids == UNION {[1..n -> RowSamples] : n \in 0..MaxRows}

TablesOpened ==
    /\ tpc = "open"
    /\ page_table \in Grids
    /\ extracted = <<>>

\* the loops over the pages and over page_tables, and the return
ExtractTables ==
    /\ tpc = "open"
    /\ extracted' = IF page_table # <<>> THEN <<TableRecord(page_table, 1, 0)>> ELSE <<>>
    /\ tpc' = "done"
    /\ UNCHANGED <<page_lines, page_table>>
    /\ UNCHANGED <<avars, pvars, nvars>>

(***************************************************************************)
(* parse_project_from_json.  A string is a sequence of tokens: characters, *)
(* and whole words for the labels and values (a label matches its pattern  *)
(* as one token, case ignored).  A float is a whole number of hundredths;  *)
(* an optional value is << >> for None and <<v>> for v.                    *)
(***************************************************************************)
SepChars == WhiteChars \cup {":"}
NumChars == DigitChars \cup {"."}
DateTokens == {"01-02-2024", "03-04-2025", "05-06-2023", "07-08-2026"}
DirectionWords == {"North", "East", "West", "South"}

RECURSIVE DigitsValue(_)
DigitsValue(ds) ==
    IF ds = <<>> THEN 0
    ELSE 10 * DigitsValue(SubSeq(ds, 1, Len(ds) - 1)) + DigitValue(ds[Len(ds)])

\* float(s) raises ValueError, for s made of digits and dots
FloatRaises(s) ==
    \/ Cardinality({i \in 1..Len(s) : s[i] = "."}) > 1
    \/ ~\E i \in 1..Len(s) : s[i] \in DigitChars

\* float(s) in hundredths, for s with one dot at most and two decimals at most
FloatValue(s) ==
    LET dots == {i \in 1..Len(s) : s[i] = "."}
        dot == IF dots = {} THEN Len(s) + 1 ELSE MinOf(dots)
        frac == SubSeq(s, dot + 1, Len(s))
    IN 100 * DigitsValue(SubSeq(s, 1, dot - 1))
         + (IF Len(frac) >= 1 THEN 10 * DigitValue(frac[1]) ELSE 0)
         + (IF Len(frac) >= 2 THEN DigitValue(frac[2]) ELSE 0)

\* the first match of r'([\d.]+)' in text, << >> when there is none
FirstNumRun(text) ==
    LET at == {i \in 1..Len(text) : text[i] \in NumChars}
    IN IF at = {} THEN <<>>
       ELSE SubSeq(text, MinOf(at), MinOf(at) + RunLen(text, MinOf(at), NumChars) - 1)

extract_float_raises(text) == FirstNumRun(text) # <<>> /\ FloatRaises(FirstNumRun(text))

extract_float(text) ==
    IF FirstNumRun(text) = <<>> THEN None ELSE <<FloatValue(FirstNumRun(text))>>

\* extract_number: the first run of digits of text with its commas removed
extract_number(text) ==
    LET t == SelectSeq(text, LAMBDA c : c # ",")
        at == {i \in 1..Len(t) : t[i] \in DigitChars}
    IN IF at = {} THEN None
       ELSE <<DigitsValue(SubSeq(t, MinOf(at), MinOf(at) + RunLen(t, MinOf(at), DigitChars) - 1))>>

\* extract_date: the first DD-MM-YYYY of text, a string of one token, or None
extract_date(text) ==
    LET at == {i \in 1..Len(text) : text[i] \in DateTokens}
    IN IF at = {} THEN None ELSE <<text[MinOf(at)]>>

\* x or "" for an optional string x
OrEmpty(opt) == IF opt = None THEN <<>> ELSE opt

\* re.sub(r'\s+', ' ', text.strip())
RECURSIVE CollapseWhite(_)
CollapseWhite(text) ==
    IF text = <<>> THEN <<>>
    ELSE IF Head(text) \in WhiteChars
         THEN <<" ">> \o CollapseWhite(SubSeq(text, 1 + RunLen(text, 1, WhiteChars), Len(text)))
         ELSE <<Head(text)>> \o CollapseWhite(Tail(text))

clean_text(text) == CollapseWhite(StripChars(text, WhiteChars))

\* Python truth of an optional number: neither None nor zero
Truthy(opt) == opt # None /\ opt[1] # 0

LatLow == 10
LatHigh == 17
LonLow == 73
LonHigh == 79

\* a variant of is_valid_coord that accepts the ends of the ranges
is_valid_coord_closed(value, coord_type) ==
    IF value = 0 THEN FALSE
    ELSE IF coord_type = "lat" THEN 100 * LatLow <= value /\ value <= 100 * LatHigh
    ELSE IF coord_type = "lon" THEN 100 * LonLow <= value /\ value <= 100 * LonHigh
    ELSE FALSE

\* not 0.0 and strictly within the Karnataka range
is_valid_coord(value, coord_type) ==
    IF value = 0 THEN FALSE
    ELSE IF coord_type = "lat" THEN 100 * LatLow < value /\ value < 100 * LatHigh
    ELSE IF coord_type = "lon" THEN 100 * LonLow < value /\ value < 100 * LonHigh
    ELSE FALSE

\* kv is a dict in insertion order: a sequence of [key, value], keys distinct;
\* a key is the sequence of its words, which underscores join
HasKey(d, key) == \E i \in 1..Len(d) : d[i].key = key

Get(d, key) == d[CHOOSE i \in 1..Len(d) : d[i].key = key].value

\* word in key
KeyHas(key, word) == \E i \in 1..Len(key) : key[i] = word

\* word1_word2 in key
KeyHasPair(key, word1, word2) ==
    \E i \in 1..(Len(key) - 1) : key[i] = word1 /\ key[i + 1] = word2

\* "\n".join(pages)
RECURSIVE JoinNewline(_)
JoinNewline(pages) ==
    IF pages = <<>> THEN <<>>
    ELSE IF Len(pages) = 1 THEN pages[1]
    ELSE pages[1] \o <<"\n">> \o JoinNewline(Tail(pages))

\* the defaults of a record whose source_file is filename
NewProject(filename) ==
    [filename |-> filename, project_name |-> <<>>, description |-> <<>>, type |-> <<>>,
     status |-> <<>>, start_date |-> <<>>, completion_date |-> <<>>, address |-> <<>>,
     district |-> <<>>, taluk |-> <<>>, pin_code |-> <<>>, latitude |-> None,
     longitude |-> None, approving_authority |-> <<>>, plan_number |-> <<>>,
     approval_date |-> <<>>, total_plots |-> 0, covered_area |-> 0, parks_count |-> 0,
     parks_area |-> 0, ca_sites_count |-> 0, ca_area |-> 0, roads_area |-> 0,
     open_area |-> 0, land_area |-> 0, cost_land |-> 0, cost_development |-> 0,
     total_cost |-> 0, water_source |-> <<>>, plot_types |-> <<>>, plots |-> <<>>]

NewBoundaryCoords ==
    [north_lat |-> None, north_lon |-> None, east_lat |-> None, east_lon |-> None,
     west_lat |-> None, west_lon |-> None, south_lat |-> None, south_lon |-> None]

(***************************************************************************)
(* The patterns of parse_project_from_json.                                *)
(***************************************************************************)
\* r'Label[:\s]+(.*?)(?:stop|...|$)': the group of the first match, as <<group>>,
\* or << >>.  The separators are taken greedily, the group lazily; the group
\* holds no newline unless dotall; $ is the end of the text or the place
\* before a newline that ends it.
LazyGroup(text, label, stops, dotall) ==
    LET AtEnd(e) == e = Len(text) + 1 \/ (e = Len(text) /\ text[e] = "\n")
        Stop(e) == AtEnd(e) \/ (e <= Len(text) /\ text[e] \in stops)
        Labels == {i \in 1..Len(text) : text[i] = label}
        Cands == {c \in Labels \X (1..Len(text)) \X (1..(Len(text) + 1)) :
                    /\ c[2] <= RunLen(text, c[1] + 1, SepChars)
                    /\ c[3] >= c[1] + 1 + c[2]
                    /\ Stop(c[3])
                    /\ \A n \in (c[1] + 1 + c[2])..(c[3] - 1) :
                          /\ ~Stop(n)
                          /\ dotall \/ text[n] # "\n"}
        Best == CHOOSE c \in Cands :
                    \A d \in Cands :
                        \/ c[1] < d[1]
                        \/ c[1] = d[1] /\ c[2] > d[2]
                        \/ c[1] = d[1] /\ c[2] = d[2] /\ c[3] <= d[3]
    IN IF Cands = {} THEN <<>>
       ELSE <<SubSeq(text, Best[1] + 1 + Best[2], Best[3] - 1)>>

\* r'(?:^|\s)Label[:\s]+([\d.]+)' with re.MULTILINE: the group of the first match
SimpleNumber(text, label) ==
    LET at == {i \in 1..Len(text) :
                 /\ text[i] = label
                 /\ i = 1 \/ text[i - 1] \in WhiteChars
                 /\ RunLen(text, i + 1, SepChars) >= 1
                 /\ RunLen(text, i + 1 + RunLen(text, i + 1, SepChars), NumChars) >= 1}
        i0 == MinOf(at)
        g == i0 + 1 + RunLen(text, i0 + 1, SepChars)
    IN IF at = {} THEN <<>> ELSE <<SubSeq(text, g, g + RunLen(text, g, NumChars) - 1)>>

\* r'Direction\s+Label[:\s]+([\d.]+)': the group of the first match
BoundaryNumber(text, direction, label) ==
    LET LabelAt(i) == i + 1 + RunLen(text, i + 1, WhiteChars)
        at == {i \in 1..Len(text) :
                 /\ text[i] = direction
                 /\ RunLen(text, i + 1, WhiteChars) >= 1
                 /\ LabelAt(i) <= Len(text) /\ text[LabelAt(i)] = label
                 /\ RunLen(text, LabelAt(i) + 1, SepChars) >= 1
                 /\ RunLen(text, LabelAt(i) + 1 + RunLen(text, LabelAt(i) + 1, SepChars),
                           NumChars) >= 1}
        i0 == MinOf(at)
        g == LabelAt(i0) + 1 + RunLen(text, LabelAt(i0) + 1, SepChars)
    IN IF at = {} THEN <<>> ELSE <<SubSeq(text, g, g + RunLen(text, g, NumChars) - 1)>>

\* r'^([\d.]+)\s*(?:North|East|West|South)\s*Longitude[:\s]*([\d.]+)' on a value:
\* <<group 1, group 2>> or << >>
CombinedMatch(value) ==
    LET n1 == RunLen(value, 1, NumChars)
        d == n1 + 1 + RunLen(value, n1 + 1, WhiteChars)
        l == d + 1 + RunLen(value, d + 1, WhiteChars)
        g == l + 1 + RunLen(value, l + 1, SepChars)
        n2 == RunLen(value, g, NumChars)
    IN IF /\ n1 >= 1
          /\ d <= Len(value) /\ value[d] \in DirectionWords
          /\ l <= Len(value) /\ value[l] = "Longitude"
          /\ n2 >= 1
       THEN <<SubSeq(value, 1, n1), SubSeq(value, g, g + n2 - 1)>>
       ELSE <<>>

\* r'Label[:\s]+(?:At the time of Registration[:\s]+)?(\d{2}-\d{2}-\d{4})'
LabelledDate(text, label) ==
    LET DateAt(i) ==
            LET a == i + 1 + RunLen(text, i + 1, SepChars)
                b == a + 1 + RunLen(text, a + 1, SepChars)
            IN IF RunLen(text, i + 1, SepChars) = 0 \/ a > Len(text) THEN 0
               ELSE IF text[a] \in DateTokens THEN a
               ELSE IF /\ text[a] = "At the time of Registration"
                       /\ RunLen(text, a + 1, SepChars) >= 1
                       /\ b <= Len(text) /\ text[b] \in DateTokens
                    THEN b
               ELSE 0
        at == {i \in 1..Len(text) : text[i] = label /\ DateAt(i) # 0}
    IN IF at = {} THEN <<>> ELSE << <<text[DateAt(MinOf(at))]>> >>

\* r'Total Number of Sites/Plots[:\s]*(\d+)'
LabelledCount(text, label) ==
    LET Digits(i) == i + 1 + RunLen(text, i + 1, SepChars)
        at == {i \in 1..Len(text) : text[i] = label /\ RunLen(text, Digits(i), DigitChars) >= 1}
        g == Digits(MinOf(at))
    IN IF at = {} THEN <<>> ELSE <<SubSeq(text, g, g + RunLen(text, g, DigitChars) - 1)>>

\* s.split(sep)[0], for a one-token separator
BeforeToken(text, sep) ==
    LET at == {i \in 1..Len(text) : text[i] = sep}
    IN IF at = {} THEN text ELSE SubSeq(text, 1, MinOf(at) - 1)

\* s.split(sep)[-1]
AfterLastToken(text, sep) ==
    LET at == {i \in 1..Len(text) : text[i] = sep}
    IN IF at = {} THEN text
       ELSE SubSeq(text, (CHOOSE i \in at : \A j \in at : j <= i) + 1, Len(text))

(***************************************************************************)
(* The steps of parse_project_from_json.                                   *)
(***************************************************************************)
\* Description, Type, Status, Dates
DescriptiveFields(p, d, text) ==
    LET desc_match == LazyGroup(text, "Project Description", {"Project Type", "Project Status"}, TRUE)
        type_match == LazyGroup(text, "Project Type", {"Project Status"}, FALSE)
        status_match == LazyGroup(text, "Project Status",
                                  {"Start Date", "Proposed", "Proposed Completion Date"}, FALSE)
        start_match == LabelledDate(text, "Start Date")
        completion_match == LabelledDate(text, "Proposed Completion Date")
        date_str == IF HasKey(d, <<"project", "start", "date">>)
                    THEN Get(d, <<"project", "start", "date">>) ELSE <<>>
        kv_start == OrEmpty(extract_date(date_str))
        kv_completion ==
            OrEmpty(extract_date(IF KeyHas(date_str, "Proposed Completion Date")
                                 THEN AfterLastToken(date_str, "Proposed Completion Date")
                                 ELSE <<>>))
    IN [p EXCEPT
          !.description = IF desc_match # <<>> THEN clean_text(desc_match[1])
                          ELSE IF HasKey(d, <<"description">>)
                               THEN clean_text(Get(d, <<"description">>))
                          ELSE @,
          !.type = IF type_match # <<>> THEN clean_text(type_match[1])
                   ELSE IF HasKey(d, <<"project", "type">>)
                        THEN StripChars(BeforeToken(clean_text(Get(d, <<"project", "type">>)),
                                                    "Project Status"), WhiteChars)
                   ELSE @,
          !.status = IF status_match # <<>> THEN clean_text(status_match[1])
                     ELSE IF HasKey(d, <<"project", "status">>)
                          THEN clean_text(Get(d, <<"project", "status">>))
                     ELSE @,
          !.start_date = IF start_match # <<>> THEN start_match[1] ELSE kv_start,
          !.completion_date = IF completion_match # <<>> THEN completion_match[1]
                              ELSE kv_completion]

\* Try simple latitude/longitude first
DirectRaises(d) ==
    \/ HasKey(d, <<"latitude">>) /\ extract_float_raises(Get(d, <<"latitude">>))
    \/ HasKey(d, <<"longitude">>) /\ extract_float_raises(Get(d, <<"longitude">>))

DirectValue(d, key, coord_type) ==
    IF HasKey(d, <<key>>)
          /\ Truthy(extract_float(Get(d, <<key>>)))
          /\ is_valid_coord(extract_float(Get(d, <<key>>))[1], coord_type)
    THEN extract_float(Get(d, <<key>>))
    ELSE None

DirectCoords(p, d) ==
    [p EXCEPT !.latitude = IF DirectValue(d, "latitude", "lat") # None
                           THEN DirectValue(d, "latitude", "lat") ELSE @,
              !.longitude = IF DirectValue(d, "longitude", "lon") # None
                            THEN DirectValue(d, "longitude", "lon") ELSE @]

\* one turn of: for key, value in kv.items()
BoundaryDirections == <<"north", "east", "west", "south">>

PairRaises(key, value) ==
    /\ value # <<>>
    /\ \/ /\ KeyHas(value, "Longitude")
          /\ CombinedMatch(value) # <<>>
          /\ FloatRaises(CombinedMatch(value)[1]) \/ FloatRaises(CombinedMatch(value)[2])
       \/ /\ \E dir \in {"north", "east", "west", "south"} :
                KeyHasPair(key, dir, "latitude") \/ KeyHasPair(key, dir, "longitude")
          /\ extract_float_raises(value)

\* boundary_coords[slot] = val when val is an accepted coordinate
SetIfValid(bc, slot, val, coord_type) ==
    IF Truthy(val) /\ is_valid_coord(val[1], coord_type) THEN [bc EXCEPT ![slot] = val] ELSE bc

Slot(dir, kind) ==
    CASE dir = "north" /\ kind = "lat" -> "north_lat" [] dir = "north" /\ kind = "lon" -> "north_lon"
      [] dir = "east" /\ kind = "lat" -> "east_lat" [] dir = "east" /\ kind = "lon" -> "east_lon"
      [] dir = "west" /\ kind = "lat" -> "west_lat" [] dir = "west" /\ kind = "lon" -> "west_lon"
      [] dir = "south" /\ kind = "lat" -> "south_lat" [] dir = "south" /\ kind = "lon" -> "south_lon"

\* a variant that takes the two numbers of a combined value only when both are accepted
BoundaryFromPairJoint(bc, key, value) ==
    LET m == CombinedMatch(value)
        dirs == {i \in 1..4 : KeyHas(key, BoundaryDirections[i]) /\ KeyHas(key, "latitude")}
        dir == BoundaryDirections[MinOf(dirs)]
        bc1 == IF /\ KeyHas(value, "Longitude") /\ m # <<>> /\ dirs # {}
                  /\ Truthy(extract_float(m[1])) /\ is_valid_coord(extract_float(m[1])[1], "lat")
                  /\ Truthy(extract_float(m[2])) /\ is_valid_coord(extract_float(m[2])[1], "lon")
               THEN [bc EXCEPT ![Slot(dir, "lat")] = extract_float(m[1]),
                               ![Slot(dir, "lon")] = extract_float(m[2])]
               ELSE bc
        chain == {i \in 1..8 :
                    KeyHasPair(key, BoundaryDirections[(i + 1) \div 2],
                               IF i % 2 = 1 THEN "latitude" ELSE "longitude")}
        c == MinOf(chain)
        kind == IF c % 2 = 1 THEN "lat" ELSE "lon"
    IN IF value = <<>> THEN bc
       ELSE IF chain = {} THEN bc1
       ELSE SetIfValid(bc1, Slot(BoundaryDirections[(c + 1) \div 2], kind),
                       extract_float(value), kind)

\* one turn of the loop: the combined format, then the separate fields
BoundaryFromPair(bc, key, value) ==
    LET m == CombinedMatch(value)
        dirs == {i \in 1..4 : KeyHas(key, BoundaryDirections[i]) /\ KeyHas(key, "latitude")}
        dir == BoundaryDirections[MinOf(dirs)]
        bc1 == IF KeyHas(value, "Longitude") /\ m # <<>> /\ dirs # {}
               THEN SetIfValid(SetIfValid(bc, Slot(dir, "lat"), extract_float(m[1]), "lat"),
                               Slot(dir, "lon"), extract_float(m[2]), "lon")
               ELSE bc
        \* the elif chain: north_latitude, north_longitude, east_latitude, ...
        chain == {i \in 1..8 :
                    KeyHasPair(key, BoundaryDirections[(i + 1) \div 2],
                               IF i % 2 = 1 THEN "latitude" ELSE "longitude")}
        c == MinOf(chain)
        kind == IF c % 2 = 1 THEN "lat" ELSE "lon"
    IN IF value = <<>> THEN bc
       ELSE IF chain = {} THEN bc1
       ELSE SetIfValid(bc1, Slot(BoundaryDirections[(c + 1) \div 2], kind),
                       extract_float(value), kind)

RECURSIVE BoundaryFromPairs(_, _)
BoundaryFromPairs(bc, d) ==
    IF d = <<>> THEN bc
    ELSE BoundaryFromPairs(BoundaryFromPair(bc, Head(d).key, Head(d).value), Tail(d))

KvBoundaryRaises(d) == \E i \in 1..Len(d) : PairRaises(d[i].key, d[i].value)

\* lats / lons: the boundary values that are set
Lats(bc) == {bc[s][1] : s \in {s \in {"north_lat", "south_lat", "east_lat", "west_lat"} : Truthy(bc[s])}}

Lons(bc) == {bc[s][1] : s \in {s \in {"north_lon", "south_lon", "east_lon", "west_lon"} : Truthy(bc[s])}}

MaxOf(S) == CHOOSE x \in S : \A y \in S : y <= x

\* a variant that takes the lowest value for the centre
CenterLow(vs) == MinOf(vs)

\* a variant that leaves the sum of the two ends undivided
CenterSum(vs) == MinOf(vs) + MaxOf(vs)

\* (min(vs) + max(vs)) / 2, exact in hundredths when the sum is even
Center(vs) == (MinOf(vs) + MaxOf(vs)) \div 2

\* a variant that sets both from the centre whatever the project already holds
KvCentroidUnguarded(p, bc) ==
    IF /\ Lats(bc) # {} /\ Lons(bc) # {}
       /\ is_valid_coord(Center(Lats(bc)), "lat") /\ is_valid_coord(Center(Lons(bc)), "lon")
    THEN [p EXCEPT !.latitude = <<Center(Lats(bc))>>, !.longitude = <<Center(Lons(bc))>>]
    ELSE p

\* if lats and lons and not project["latitude"]: set both from the centre
KvCentroid(p, bc) ==
    IF /\ Lats(bc) # {} /\ Lons(bc) # {} /\ ~Truthy(p.latitude)
       /\ is_valid_coord(Center(Lats(bc)), "lat") /\ is_valid_coord(Center(Lons(bc)), "lon")
    THEN [p EXCEPT !.latitude = <<Center(Lats(bc))>>, !.longitude = <<Center(Lons(bc))>>]
    ELSE p

\* Also try regex from text for simple format
TextSimpleRaises(p, text) ==
    \/ ~Truthy(p.latitude) /\ SimpleNumber(text, "Latitude") # <<>>
          /\ FloatRaises(SimpleNumber(text, "Latitude")[1])
    \/ ~Truthy(p.longitude) /\ SimpleNumber(text, "Longitude") # <<>>
          /\ FloatRaises(SimpleNumber(text, "Longitude")[1])

TextSimpleValue(old, text, label, coord_type) ==
    IF /\ ~Truthy(old)
       /\ SimpleNumber(text, label) # <<>>
       /\ is_valid_coord(FloatValue(SimpleNumber(text, label)[1]), coord_type)
    THEN <<FloatValue(SimpleNumber(text, label)[1])>>
    ELSE old

TextSimple(p, text) ==
    [p EXCEPT !.latitude = TextSimpleValue(@, text, "Latitude", "lat"),
              !.longitude = TextSimpleValue(@, text, "Longitude", "lon")]

\* Try to extract boundary coordinates from text
BoundaryPatterns ==
    <<[dir |-> "North", label |-> "Latitude", slot |-> "north_lat", kind |-> "lat"],
      [dir |-> "North", label |-> "Longitude", slot |-> "north_lon", kind |-> "lon"],
      [dir |-> "East", label |-> "Latitude", slot |-> "east_lat", kind |-> "lat"],
      [dir |-> "East", label |-> "Longitude", slot |-> "east_lon", kind |-> "lon"],
      [dir |-> "West", label |-> "Latitude", slot |-> "west_lat", kind |-> "lat"],
      [dir |-> "West", label |-> "Longitude", slot |-> "west_lon", kind |-> "lon"],
      [dir |-> "South", label |-> "Latitude", slot |-> "south_lat", kind |-> "lat"],
      [dir |-> "South", label |-> "Longitude", slot |-> "south_lon", kind |-> "lon"]>>

TextBoundaryEntered(p) == ~Truthy(p.latitude) \/ ~Truthy(p.longitude)

TextBoundaryRaises(p, text) ==
    /\ TextBoundaryEntered(p)
    /\ \E i \in 1..Len(BoundaryPatterns) :
          /\ BoundaryNumber(text, BoundaryPatterns[i].dir, BoundaryPatterns[i].label) # <<>>
          /\ FloatRaises(BoundaryNumber(text, BoundaryPatterns[i].dir, BoundaryPatterns[i].label)[1])

RECURSIVE BoundaryFromText(_, _, _)
BoundaryFromText(bc, text, i) ==
    IF i > Len(BoundaryPatterns) THEN bc
    ELSE LET pat == BoundaryPatterns[i]
             m == BoundaryNumber(text, pat.dir, pat.label)
         IN BoundaryFromText(
                IF m = <<>> THEN bc ELSE SetIfValid(bc, pat.slot, extract_float(m[1]), pat.kind),
                text, i + 1)

\* if lats and lons: set both from the centre
TextCentroid(p, bc) ==
    IF /\ Lats(bc) # {} /\ Lons(bc) # {}
       /\ is_valid_coord(Center(Lats(bc)), "lat") /\ is_valid_coord(Center(Lons(bc)), "lon")
    THEN [p EXCEPT !.latitude = <<Center(Lats(bc))>>, !.longitude = <<Center(Lons(bc))>>]
    ELSE p

\* Water source
WaterSource(p, d, text) ==
    LET from_kv == IF HasKey(d, <<"source", "of", "water">>)
                   THEN StripChars(StripRight(clean_text(Get(d, <<"source", "of", "water">>)), {","}),
                                   WhiteChars)
                   ELSE p.water_source
        water_match == LazyGroup(text, "Source of Water", {",", "\n"}, FALSE)
    IN [p EXCEPT !.water_source =
           IF water_match # <<>> /\ from_kv = <<>>
           THEN StripChars(StripRight(clean_text(water_match[1]), {","}), WhiteChars)
           ELSE from_kv]

\* Total plots
TotalPlots(p, d, text) ==
    LET plots_match == LabelledCount(text, "Total Number of Sites/Plots")
    IN [p EXCEPT !.total_plots =
           IF plots_match # <<>> THEN DigitsValue(plots_match[1])
           ELSE IF HasKey(d, <<"number", "of", "plots">>)
                THEN (IF Truthy(extract_number(Get(d, <<"number", "of", "plots">>)))
                      THEN extract_number(Get(d, <<"number", "of", "plots">>))[1] ELSE 0)
           ELSE @]

(***************************************************************************)
(* Text by the character.  The patterns below look inside the labels and   *)
(* the words, which the texts hold as single tokens.                       *)
(***************************************************************************)
UpperLetters ==
    <<"A", "B", "C", "D", "E", "F", "G", "H", "I", "J", "K", "L", "M",
      "N", "O", "P", "Q", "R", "S", "T", "U", "V", "W", "X", "Y", "Z">>

LowerLetters ==
    <<"a", "b", "c", "d", "e", "f", "g", "h", "i", "j", "k", "l", "m",
      "n", "o", "p", "q", "r", "s", "t", "u", "v", "w", "x", "y", "z">>

\* the lower-case letter of each upper-case letter
Lowered ==
    [u \in {UpperLetters[i] : i \in 1..Len(UpperLetters)} |->
        LowerLetters[CHOOSE i \in 1..Len(UpperLetters) : UpperLetters[i] = u]]

\* str.lower(), and the folding of re.IGNORECASE, on one ASCII character
LowerLetter(c) == IF c \in DOMAIN Lowered THEN Lowered[c] ELSE c

LowerText(s) == [i \in 1..Len(s) |-> LowerLetter(s[i])]

\* the characters of the tokens that are longer than one character
Spelling ==
    "Latitude" :> <<"L", "a", "t", "i", "t", "u", "d", "e">> @@
    "Longitude" :> <<"L", "o", "n", "g", "i", "t", "u", "d", "e">> @@
    "North" :> <<"N", "o", "r", "t", "h">> @@
    "South" :> <<"S", "o", "u", "t", "h">> @@
    "East" :> <<"E", "a", "s", "t">> @@
    "West" :> <<"W", "e", "s", "t">> @@
    "Project Type" :> <<"P", "r", "o", "j", "e", "c", "t", " ", "T", "y", "p", "e">> @@
    "Project Status" :> <<"P", "r", "o", "j", "e", "c", "t", " ", "S", "t", "a", "t", "u", "s">> @@
    "Project Description" :> <<"P", "r", "o", "j", "e", "c", "t", " ", "D", "e", "s", "c", "r", "i", "p", "t", "i", "o", "n">> @@
    "Start Date" :> <<"S", "t", "a", "r", "t", " ", "D", "a", "t", "e">> @@
    "Proposed Completion Date" :> <<"P", "r", "o", "p", "o", "s", "e", "d", " ", "C", "o", "m", "p", "l", "e", "t", "i", "o", "n", " ", "D", "a", "t", "e">> @@
    "Proposed" :> <<"P", "r", "o", "p", "o", "s", "e", "d">> @@
    "At the time of Registration" :> <<"A", "t", " ", "t", "h", "e", " ", "t", "i", "m", "e", " ", "o", "f", " ", "R", "e", "g", "i", "s", "t", "r", "a", "t", "i", "o", "n">> @@
    "Source of Water" :> <<"S", "o", "u", "r", "c", "e", " ", "o", "f", " ", "W", "a", "t", "e", "r">> @@
    "Total Number of Sites/Plots" :> <<"T", "o", "t", "a", "l", " ", "N", "u", "m", "b", "e", "r", " ", "o", "f", " ", "S", "i", "t", "e", "s", "/", "P", "l", "o", "t", "s">> @@
    "Villa" :> <<"V", "i", "l", "l", "a">> @@
    "Plotted" :> <<"P", "l", "o", "t", "t", "e", "d">> @@
    "Ongoing" :> <<"O", "n", "g", "o", "i", "n", "g">> @@
    "Completed" :> <<"C", "o", "m", "p", "l", "e", "t", "e", "d">> @@
    "Layout" :> <<"L", "a", "y", "o", "u", "t">> @@
    "Sites" :> <<"S", "i", "t", "e", "s">> @@
    "Borewell" :> <<"B", "o", "r", "e", "w", "e", "l", "l">> @@
    "Tanker" :> <<"T", "a", "n", "k", "e", "r">> @@
    "01-02-2024" :> <<"0", "1", "-", "0", "2", "-", "2", "0", "2", "4">> @@
    "03-04-2025" :> <<"0", "3", "-", "0", "4", "-", "2", "0", "2", "5">> @@
    "05-06-2023" :> <<"0", "5", "-", "0", "6", "-", "2", "0", "2", "3">> @@
    "07-08-2026" :> <<"0", "7", "-", "0", "8", "-", "2", "0", "2", "6">> @@
    "Total Covered Area" :> <<"T", "o", "t", "a", "l", " ", "C", "o", "v", "e", "r", "e", "d", " ", "A", "r", "e", "a">> @@
    "Total Number of Parks" :> <<"T", "o", "t", "a", "l", " ", "N", "u", "m", "b", "e", "r", " ", "o", "f", " ", "P", "a", "r", "k", "s">> @@
    "Total Area of Parks" :> <<"T", "o", "t", "a", "l", " ", "A", "r", "e", "a", " ", "o", "f", " ", "P", "a", "r", "k", "s">> @@
    "Total Number of CA Sites" :> <<"T", "o", "t", "a", "l", " ", "N", "u", "m", "b", "e", "r", " ", "o", "f", " ", "C", "A", " ", "S", "i", "t", "e", "s">> @@
    "Total Area of CA Sites" :> <<"T", "o", "t", "a", "l", " ", "A", "r", "e", "a", " ", "o", "f", " ", "C", "A", " ", "S", "i", "t", "e", "s">> @@
    "Total Area of Roads" :> <<"T", "o", "t", "a", "l", " ", "A", "r", "e", "a", " ", "o", "f", " ", "R", "o", "a", "d", "s">> @@
    "Total Open Area" :> <<"T", "o", "t", "a", "l", " ", "O", "p", "e", "n", " ", "A", "r", "e", "a">> @@
    "Total Area Land" :> <<"T", "o", "t", "a", "l", " ", "A", "r", "e", "a", " ", "L", "a", "n", "d">> @@
    "Cost of Land" :> <<"C", "o", "s", "t", " ", "o", "f", " ", "L", "a", "n", "d">> @@
    "Cost of Layout Development" :> <<"C", "o", "s", "t", " ", "o", "f", " ", "L", "a", "y", "o", "u", "t", " ", "D", "e", "v", "e", "l", "o", "p", "m", "e", "n", "t">> @@
    "Total Project Cost" :> <<"T", "o", "t", "a", "l", " ", "P", "r", "o", "j", "e", "c", "t", " ", "C", "o", "s", "t">> @@
    "Plan Approval Date" :> <<"P", "l", "a", "n", " ", "A", "p", "p", "r", "o", "v", "a", "l", " ", "D", "a", "t", "e">> @@
    "(C1)" :> <<"(", "C", "1", ")">> @@
    "(C2)" :> <<"(", "C", "2", ")">> @@
    "(C1+C2)" :> <<"(", "C", "1", "+", "C", "2", ")">> @@
    "B1" :> <<"B", "1">> @@
    "B2" :> <<"B", "2">> @@
    "B3" :> <<"B", "3">> @@
    ".pdf" :> <<".", "p", "d", "f">> @@
    "cost_of_land" :> <<"c", "o", "s", "t", "_", "o", "f", "_", "l", "a", "n", "d">> @@
    "plot" :> <<"p", "l", "o", "t">> @@
    "type" :> <<"t", "y", "p", "e">> @@
    "dimension" :> <<"d", "i", "m", "e", "n", "s", "i", "o", "n">> @@
    "plot no" :> <<"p", "l", "o", "t", " ", "n", "o">> @@
    "north" :> <<"n", "o", "r", "t", "h">> @@
    "schedule" :> <<"s", "c", "h", "e", "d", "u", "l", "e">> @@
    "Sl No." :> <<"S", "l", " ", "N", "o", ".">> @@
    "sl_no" :> <<"s", "l", "_", "n", "o">> @@
    "Plot Type" :> <<"P", "l", "o", "t", " ", "T", "y", "p", "e">> @@
    "Site Dimension" :> <<"S", "i", "t", "e", " ", "D", "i", "m", "e", "n", "s", "i", "o", "n">> @@
    "Number of Sites" :> <<"N", "u", "m", "b", "e", "r", " ", "o", "f", " ", "S", "i", "t", "e", "s">> @@
    "number" :> <<"n", "u", "m", "b", "e", "r">> @@
    "Number" :> <<"N", "u", "m", "b", "e", "r">> @@
    "Total Area" :> <<"T", "o", "t", "a", "l", " ", "A", "r", "e", "a">> @@
    "area" :> <<"a", "r", "e", "a">> @@
    "Area" :> <<"A", "r", "e", "a">> @@
    "Plot No." :> <<"P", "l", "o", "t", " ", "N", "o", ".">> @@
    "plot_no" :> <<"p", "l", "o", "t", "_", "n", "o">> @@
    "Plot No" :> <<"P", "l", "o", "t", " ", "N", "o">> @@
    "Plot Size" :> <<"P", "l", "o", "t", " ", "S", "i", "z", "e">> @@
    "size" :> <<"s", "i", "z", "e">> @@
    "Plot Area" :> <<"P", "l", "o", "t", " ", "A", "r", "e", "a">> @@
    "North Schedule" :> <<"N", "o", "r", "t", "h", " ", "S", "c", "h", "e", "d", "u", "l", "e">> @@
    "South Schedule" :> <<"S", "o", "u", "t", "h", " ", "S", "c", "h", "e", "d", "u", "l", "e">> @@
    "East Schedule" :> <<"E", "a", "s", "t", " ", "S", "c", "h", "e", "d", "u", "l", "e">> @@
    "West Schedule" :> <<"W", "e", "s", "t", " ", "S", "c", "h", "e", "d", "u", "l", "e">> @@
    "south" :> <<"s", "o", "u", "t", "h">> @@
    "east" :> <<"e", "a", "s", "t">> @@
    "west" :> <<"w", "e", "s", "t">> @@
    "Green" :> <<"G", "r", "e", "e", "n">> @@
    "Acres" :> <<"A", "c", "r", "e", "s">> @@
    "Mysuru" :> <<"M", "y", "s", "u", "r", "u">> @@
    "Hunsur" :> <<"H", "u", "n", "s", "u", "r">> @@
    "MUDA" :> <<"M", "U", "D", "A">> @@
    "LAO" :> <<"L", "A", "O">> @@
    "acres" :> <<"a", "c", "r", "e", "s">> @@
    "Rs" :> <<"R", "s">> @@
    "570001" :> <<"5", "7", "0", "0", "0", "1">> @@
    "30x40" :> <<"3", "0", "x", "4", "0">>

\* the characters of a text
RECURSIVE Spell(_)
Spell(text) ==
    IF text = <<>> THEN <<>>
    ELSE (IF Head(text) \in DOMAIN Spelling THEN Spelling[Head(text)] ELSE <<Head(text)>>)
            \o Spell(Tail(text))

\* sub is in s at place i
SubAt(s, i, sub) ==
    /\ i + Len(sub) - 1 <= Len(s)
    /\ \A j \in 1..Len(sub) : s[i + j - 1] = sub[j]

\* s.replace(sub, "")
RECURSIVE RemoveSub(_, _)
RemoveSub(s, sub) ==
    IF s = <<>> THEN <<>>
    ELSE IF SubAt(s, 1, sub) THEN RemoveSub(SubSeq(s, Len(sub) + 1, Len(s)), sub)
    ELSE <<Head(s)>> \o RemoveSub(Tail(s), sub)

\* r'Label[^x]*Anchor[:\s]*(\d+)' with re.IGNORECASE on the lowered characters t:
\* the group of the first match, as <<group>>, or << >>.  skips says that the
\* pattern has the [^x]* part, excluded is what that part leaves out.
AnchoredNumber(t, label, skips, excluded, anchor) ==
    LET l == LowerText(Spelling[label])
        a == LowerText(Spell(anchor))
        After(c) == c[1] + Len(l) + c[2] + Len(a)
        Group(c) == After(c) + RunLen(t, After(c), SepChars)
        at == {i \in 1..Len(t) : SubAt(t, i, l)}
        Cands == {c \in at \X (0..Len(t)) :
                    /\ skips \/ c[2] = 0
                    /\ After(c) - 1 <= Len(t)
                    /\ \A n \in 1..c[2] : t[c[1] + Len(l) - 1 + n] \notin excluded
                    /\ SubAt(t, c[1] + Len(l) + c[2], a)
                    /\ RunLen(t, Group(c), DigitChars) >= 1}
        Best == CHOOSE c \in Cands :
                    \A d \in Cands : c[1] < d[1] \/ (c[1] = d[1] /\ c[2] >= d[2])
    IN IF Cands = {} THEN <<>>
       ELSE <<SubSeq(t, Group(Best), Group(Best) + RunLen(t, Group(Best), DigitChars) - 1)>>

\* Project name
ProjectName(p, d, jd) ==
    [p EXCEPT !.project_name =
        IF HasKey(d, <<"project", "name">>)
        THEN StripChars(BeforeToken(clean_text(Get(d, <<"project", "name">>)),
                                    "Project Description"), WhiteChars)
        ELSE IF jd.project_name # None THEN clean_text(jd.project_name[1])
        ELSE @]

\* Address components
AddressFields(p, d) ==
    [p EXCEPT
       !.address = IF HasKey(d, <<"project", "address">>)
                   THEN clean_text(Get(d, <<"project", "address">>)) ELSE @,
       !.district = IF HasKey(d, <<"district">>)
                    THEN clean_text(Get(d, <<"district">>)) ELSE @,
       !.taluk = IF HasKey(d, <<"taluk">>) THEN clean_text(Get(d, <<"taluk">>)) ELSE @,
       !.pin_code = IF HasKey(d, <<"pin", "code">>)
                    THEN clean_text(Get(d, <<"pin", "code">>)) ELSE @]

\* [A-Z0-9/_-]
PlanChars == {UpperLetters[i] : i \in 1..Len(UpperLetters)} \cup DigitChars \cup {"/", "_", "-"}

\* the first match of r'([A-Z0-9/_-]+)' in the characters s, << >> when there is none
PlanMatch(s) ==
    LET at == {i \in 1..Len(s) : s[i] \in PlanChars}
    IN IF at = {} THEN <<>>
       ELSE SubSeq(s, MinOf(at), MinOf(at) + RunLen(s, MinOf(at), PlanChars) - 1)

\* \d{2}-\d{2}-\d{4} is in the characters s at place i
DateShapeAt(s, i) ==
    /\ i + 9 <= Len(s)
    /\ \A j \in 0..9 : IF j \in {2, 5} THEN s[i + j] = "-" ELSE s[i + j] \in DigitChars

\* r'Plan Approval Date[:\s]+(\d{2}-\d{2}-\d{4})' on the characters s: the group
\* of the first match, or << >>
ApprovalMatch(s) ==
    LET l == Spelling["Plan Approval Date"]
        Group(i) == i + Len(l) + RunLen(s, i + Len(l), SepChars)
        at == {i \in 1..Len(s) :
                 /\ SubAt(s, i, l)
                 /\ RunLen(s, i + Len(l), SepChars) >= 1
                 /\ DateShapeAt(s, Group(i))}
    IN IF at = {} THEN <<>> ELSE SubSeq(s, Group(MinOf(at)), Group(MinOf(at)) + 9)

\* Approving authority, plan number and approval date
Authority(p, d) ==
    LET plan_text == IF HasKey(d, <<"approved", "plan", "number">>)
                     THEN Spell(Get(d, <<"approved", "plan", "number">>)) ELSE <<>>
    IN [p EXCEPT
          !.approving_authority =
              IF HasKey(d, <<"approving", "authority">>)
              THEN clean_text(Get(d, <<"approving", "authority">>)) ELSE @,
          !.plan_number = IF PlanMatch(plan_text) # <<>> THEN PlanMatch(plan_text) ELSE @,
          !.approval_date = IF ApprovalMatch(plan_text) # <<>> THEN ApprovalMatch(plan_text)
                            ELSE @]

\* the patterns of the figures: r'Label[^x]*Anchor[:\s]*(\d+)'
FigurePatterns ==
    [covered_area |-> [label |-> "Total Covered Area", skips |-> TRUE, excluded |-> {"a"},
                       anchor |-> <<"A">>],
     parks_count |-> [label |-> "Total Number of Parks", skips |-> TRUE,
                      excluded |-> DigitChars, anchor |-> <<>>],
     parks_area |-> [label |-> "Total Area of Parks", skips |-> TRUE, excluded |-> {"b"},
                     anchor |-> <<"B1">>],
     ca_sites_count |-> [label |-> "Total Number of CA Sites", skips |-> FALSE,
                         excluded |-> {}, anchor |-> <<>>],
     ca_area |-> [label |-> "Total Area of CA Sites", skips |-> TRUE, excluded |-> {"b"},
                  anchor |-> <<"B2">>],
     roads_area |-> [label |-> "Total Area of Roads", skips |-> TRUE, excluded |-> {"b"},
                     anchor |-> <<"B3">>],
     open_area |-> [label |-> "Total Open Area", skips |-> TRUE, excluded |-> {"="},
                    anchor |-> <<"=">>],
     land_area |-> [label |-> "Total Area Land", skips |-> TRUE, excluded |-> {"+"},
                    anchor |-> <<"+">>],
     cost_land |-> [label |-> "Cost of Land", skips |-> TRUE, excluded |-> DigitChars,
                    anchor |-> <<"(C1)">>],
     cost_development |-> [label |-> "Cost of Layout Development", skips |-> TRUE,
                           excluded |-> DigitChars, anchor |-> <<"(C2)">>],
     total_cost |-> [label |-> "Total Project Cost", skips |-> TRUE, excluded |-> {":"},
                     anchor |-> <<"(C1+C2)">>]]

\* re.search(pattern of field, all_text, re.IGNORECASE)
FigureMatch(text, field) ==
    LET t == LowerText(Spell(text))
        pattern == FigurePatterns[field]
    IN AnchoredNumber(t, pattern.label, pattern.skips, pattern.excluded, pattern.anchor)

\* project[field] = int(match.group(1)) if the pattern of field matches
WithFigure(p, text, field) ==
    LET match == FigureMatch(text, field)
    IN IF match # <<>> THEN [p EXCEPT ![field] = DigitsValue(match[1])] ELSE p

\* p after the figures of fields, in their order
RECURSIVE WithFigures(_, _, _)
WithFigures(p, text, fields) ==
    IF fields = <<>> THEN p
    ELSE WithFigures(WithFigure(p, text, Head(fields)), text, Tail(fields))

\* Areas
Areas(p, text) ==
    WithFigures(p, text, <<"covered_area", "parks_count", "parks_area", "ca_sites_count",
                           "ca_area", "roads_area", "open_area", "land_area">>)

\* the first section whose key holds cost_of_land and whose joined content holds
\* a number that is not zero: that number, or None
SectionCost(sections) ==
    LET Num(i) == IF ContainsSub(LowerText(sections[i].key), Spelling["cost_of_land"])
                  THEN extract_number(Spell(JoinSpace(sections[i].content)))
                  ELSE None
        at == {i \in 1..Len(sections) : Truthy(Num(i))}
    IN IF at = {} THEN None ELSE Num(MinOf(at))

\* Costs
Costs(p, text, sections) ==
    LET p1 == IF FigureMatch(text, "cost_land") # <<>> THEN WithFigure(p, text, "cost_land")
              ELSE IF SectionCost(sections) # None
                   THEN [p EXCEPT !.cost_land = SectionCost(sections)[1]]
              ELSE p
    IN WithFigures(p1, text, <<"cost_development", "total_cost">>)

\* x or 0 for an optional number x
OrZero(opt) == IF Truthy(opt) THEN opt[1] ELSE 0

\* row.get(k1, row.get(k2, ... default)) for the keys in their rank; a row is a
\* row_dict of extract_tables_pdfplumber
RECURSIVE RowGet(_, _, _)
RowGet(row, keys, default) ==
    IF keys = <<>> THEN default
    ELSE IF Spelling[Head(keys)] \in DOMAIN row THEN row[Spelling[Head(keys)]]
    ELSE RowGet(row, Tail(keys), default)

\* table.get("has_header") and table.get("data")
Scanned(table) == table.has_header /\ table.data # <<>>

\* any(word in h.lower() for h in headers)
HeaderHas(table, word) ==
    \E h \in DOMAIN table.data[1] : ContainsSub(LowerText(h), Spelling[word])

PlotTypeTable(table) ==
    /\ Scanned(table)
    /\ HeaderHas(table, "plot") \/ HeaderHas(table, "type") \/ HeaderHas(table, "dimension")

PlotType(row) ==
    [sl_no |-> RowGet(row, <<"Sl No.", "sl_no">>, <<>>),
     type |-> RowGet(row, <<"Plot Type", "type", "Site Dimension">>, <<>>),
     number |-> OrZero(extract_number(RowGet(row, <<"Number of Sites", "number", "Number">>,
                                             <<"0">>))),
     area |-> OrZero(extract_number(RowGet(row, <<"Total Area", "area", "Area">>, <<"0">>)))]

\* the plot types one table appends
PlotTypeRows(table) ==
    IF PlotTypeTable(table)
    THEN SelectSeq([i \in 1..(Len(table.data) - 1) |-> PlotType(table.data[i + 1])],
                   LAMBDA plot_type : plot_type.type # <<>> /\ plot_type.number > 0)
    ELSE <<>>

\* Extract plot types from tables
RECURSIVE PlotTypes(_)
PlotTypes(detected) ==
    IF detected = <<>> THEN <<>> ELSE PlotTypeRows(Head(detected)) \o PlotTypes(Tail(detected))

PlotTable(table) ==
    /\ Scanned(table)
    /\ HeaderHas(table, "plot no")
    /\ HeaderHas(table, "north") \/ HeaderHas(table, "schedule")

PlotArea(row) == RowGet(row, <<"Plot Area", "area", "Area">>, <<"0">>)

Plot(row) ==
    [sl_no |-> RowGet(row, <<"Sl No.", "sl_no">>, <<>>),
     plot_no |-> RowGet(row, <<"Plot No.", "plot_no", "Plot No">>, <<>>),
     type |-> RowGet(row, <<"Plot Type", "type">>, <<>>),
     size |-> RowGet(row, <<"Plot Size", "size", "Plot Size">>, <<>>),
     area |-> OrZero(extract_float(PlotArea(row))),
     north |-> RowGet(row, <<"North Schedule", "north", "North">>, <<>>),
     south |-> RowGet(row, <<"South Schedule", "south", "South">>, <<>>),
     east |-> RowGet(row, <<"East Schedule", "east", "East">>, <<>>),
     west |-> RowGet(row, <<"West Schedule", "west", "West">>, <<>>)]

\* the plots one table appends
PlotRows(table) ==
    IF PlotTable(table)
    THEN SelectSeq([i \in 1..(Len(table.data) - 1) |-> Plot(table.data[i + 1])],
                   LAMBDA plot : plot.plot_no # <<>>)
    ELSE <<>>

\* Extract individual plots from tables
RECURSIVE Plots(_)
Plots(detected) ==
    IF detected = <<>> THEN <<>> ELSE PlotRows(Head(detected)) \o Plots(Tail(detected))

\* float() raises on the area of a row
PlotsRaise(detected) ==
    \E t \in 1..Len(detected) :
        /\ PlotTable(detected[t])
        /\ \E i \in 2..Len(detected[t].data) : extract_float_raises(PlotArea(detected[t].data[i]))

\* the tables' share of the project
FromTables(p, detected) ==
    [p EXCEPT !.plot_types = PlotTypes(detected), !.plots = Plots(detected)]

\* str.replace("_", " ")
UnderscoresToSpaces(s) == [i \in 1..Len(s) |-> IF s[i] = "_" THEN " " ELSE s[i]]

\* a variant that keeps the extension of the file name
CleanupNameWithExtension(p) ==
    IF p.project_name = <<>>
    THEN [p EXCEPT !.project_name = UnderscoresToSpaces(Spell(p.filename))]
    ELSE p

\* Clean up project name if it's still empty
CleanupName(p) ==
    IF p.project_name = <<>>
    THEN [p EXCEPT !.project_name =
             UnderscoresToSpaces(RemoveSub(Spell(p.filename), Spelling[".pdf"]))]
    ELSE p

(***************************************************************************)
(* The records parse_project_from_json is called with.  A key that is      *)
(* absent reads as the empty value the code takes for it; project_name is  *)
(* None when absent, <<name>> when present.                                *)
(***************************************************************************)
MaxKV == 3
MaxTextPages == 1

KVSamples ==
    <<[key |-> <<"latitude">>, value |-> <<"1", "3", ".", "2">>],
       [key |-> <<"latitude">>, value |-> <<"N", ".", "A", ".">>],
       [key |-> <<"latitude">>, value |-> <<"1", "7">>],
       [key |-> <<"latitude">>, value |-> <<"0">>],
       [key |-> <<"longitude">>, value |-> <<"7", "7", ".", "4">>],
       [key |-> <<"longitude">>, value |-> <<"2", "0", ".", "0">>],
       [key |-> <<"north", "latitude">>, value |-> <<"1", "3", ".", "4", "North", " ", "Longitude", ":", "7", "7", ".", "6">>],
       [key |-> <<"north", "latitude">>, value |-> <<"0", "North", " ", "Longitude", ":", "0">>],
       [key |-> <<"south", "latitude">>, value |-> <<"1", "3", ".", "2">>],
       [key |-> <<"south", "longitude">>, value |-> <<"7", "7", ".", "4">>],
       [key |-> <<"east", "latitude">>, value |-> <<"0", "East", " ", "Longitude", ":", "7", "7", ".", "8">>],
       [key |-> <<"west", "latitude">>, value |-> <<"1", "6", ".", "9", "8", "West", " ", "Longitude", ":", "7", "8", ".", "9", "8">>],
       [key |-> <<"project", "type">>, value |-> <<"Plotted">>],
       [key |-> <<"project", "status">>, value |-> <<"Completed">>],
       [key |-> <<"description">>, value |-> <<"Sites">>],
       [key |-> <<"project", "start", "date">>, value |-> <<"05-06-2023", " ", "Proposed Completion Date", " ", "07-08-2026">>],
       [key |-> <<"number", "of", "plots">>, value |-> <<"3", "0">>],
       [key |-> <<"source", "of", "water">>, value |-> <<"Tanker", ",">>],
       [key |-> <<"project", "name">>, value |-> <<"Green", " ", "Acres", " ", "Project Description", " ", "x">>],
       [key |-> <<"project", "address">>, value |-> <<"Layout", " ", " ", "Mysuru">>],
       [key |-> <<"district">>, value |-> <<"Mysuru">>],
       [key |-> <<"taluk">>, value |-> <<"Hunsur">>],
       [key |-> <<"pin", "code">>, value |-> <<"570001">>],
       [key |-> <<"approving", "authority">>, value |-> <<"MUDA">>],
       [key |-> <<"approved", "plan", "number">>, value |-> <<"n", "o", " ", "LAO", "/", "1", "2", " ", "Plan Approval Date", ":", " ", "01-02-2024">>],
       [key |-> <<"approved", "plan", "number">>, value |-> <<"x">>]>>

CoordinateKVs == 1..12
DescriptiveKVs == 13..18
IdentityKVs == 19..26

TextSamples ==
    <<<<"Latitude", ":", " ", "1", "3", ".", "6">>,
       <<"Longitude", " ", ":", " ", "7", "7", ".", "8">>,
       <<"North", " ", "Latitude", " ", ":", " ", "1", "3", ".", "4", " ", "North", " ", "Longitude", " ", ":", " ", "7", "7", ".", "6">>,
       <<"Latitude", ":", " ", "1", ".", "2", ".", "3">>,
       <<"South", " ", "Latitude", ":", " ", "1", "7", " ", "South", " ", "Longitude", ":", " ", "7", "9">>,
       <<"Project Type", ":", " ", "Villa">>,
       <<"Project Status", ":", " ", "Ongoing">>,
       <<"Project Description", ":", " ", "Layout">>,
       <<"Start Date", ":", " ", "01-02-2024">>,
       <<"Proposed Completion Date", ":", " ", "03-04-2025">>,
       <<"Source of Water", ":", " ", "Borewell", ",", " ", "Tanker">>,
       <<"Total Number of Sites/Plots", ":", " ", "1", "2">>,
       <<"Total Covered Area", " ", "A", ":", " ", "1", "2", "0", " ", "Total Number of Parks", ":", " ", "2">>,
       <<"Total Covered Area", " ", "(", "A", ")", ":", " ", "1", "2", "0">>,
       <<"Total Area of Parks", " ", "B1", ":", " ", "3", "0", " ", "Total Number of CA Sites", " ", "4">>,
       <<"Total Area of CA Sites", " ", "B2", " ", "5", " ", "Total Area of Roads", " ", "B3", ":", " ", "6">>,
       <<"Total Open Area", " ", "=", " ", "7", " ", "Total Area Land", " ", "+", " ", "8">>,
       <<"Cost of Land", " ", "(C1)", ":", " ", "9", "0", "0", " ", "Cost of Layout Development", " ", "(C2)", ":", " ", "5", "0", " ", "Total Project Cost", " ", "(C1+C2)", ":", " ", "9", "5", "0">>,
       <<"Cost of Land", " ", "5", " ", "(C1)", ":", " ", "9", "0", "0">>>>

CoordinateTexts == 1..5
DescriptiveTexts == 6..12
FigureTexts == 13..19

\* source_file
FileSamples == {<<>>, <<"a", "_", "b", ".pdf">>}

\* project_name
NameSamples == {None, <<<<" ", "Layout">>>>}

\* sections
SectionSamples ==
    {<<>>,
     <<[key |-> Spelling["cost_of_land"],
        content |-> <<<<"Rs", " ", "1", ",", "2", "0", "0">>, <<"5">>>>]>>,
     <<[key |-> <<"a">>, content |-> <<<<"7">>>>],
       [key |-> <<"b", "_">> \o Spelling["cost_of_land"], content |-> <<<<"0">>>>]>>}

\* the grids of the tables of detected_tables: plot types, plots, plots with an
\* area that is no number, a table about something else, a table with no header
GridSamples ==
    {<<<<Spelling["Sl No."], Spelling["Plot Type"], Spelling["Number of Sites"], Spelling["Total Area"]>>,
       <<<<"1">>, Spelling["30x40"], <<"1", "2">>, <<"1", ",", "2", "0", "0">>>>,
       <<<<"2">>, Spelling["30x40"], <<"8">>, <<"9", "6", "0">>>>,
       <<<<"3">>, <<>>, <<"5">>, <<"1">>>>>>,
     <<<<Spelling["Plot No."], Spelling["North Schedule"], Spelling["Plot Area"]>>,
       <<<<"6">>, Spelling["Plot No."], <<"2">>>>,
       <<<<"7">>, Spelling["Layout"], <<"1", ".", "5">>>>,
       <<<<>>, Spelling["Layout"], <<"3">>>>>>,
     <<<<Spelling["Plot No."], Spelling["North Schedule"], Spelling["Plot Area"]>>,
       <<<<"6">>, Spelling["Plot No."], <<"2">>>>,
       <<<<"8">>, <<"x">>, <<"1", ".", "2", ".", "3">>>>>>,
     <<<<Spelling["Sites"], Spelling["Number"]>>,
       <<<<"a">>, <<"1">>>>,
       <<<<"b">>, <<"2">>>>>>,
     <<<<<<"1">>, <<"2">>>>,
       <<<<"3">>, <<"4">>>>>>}

\* detected_tables
TableSamples == {<<>>} \cup {<<TableRecord(grid, 1, 0)>> : grid \in GridSamples}

\* the entries of samples picked by the index set pick, in the order of samples
RECURSIVE Picked(_, _, _)
Picked(samples, pick, i) ==
    IF i > Len(samples) THEN <<>>
    ELSE (IF i \in pick THEN <<samples[i]>> ELSE <<>>) \o Picked(samples, pick, i + 1)

\* records about coordinates, records about descriptive fields, records about
\* names, addresses and plans, and records about figures and tables
InputRecords ==
    LET KVPicks(ix) == {pick \in SUBSET ix :
                          /\ Cardinality(pick) <= MaxKV
                          /\ \A i, j \in pick : KVSamples[i].key = KVSamples[j].key => i = j}
        TextPicks(ix) == {pick \in SUBSET ix : Cardinality(pick) <= MaxTextPages}
        Records(kx, tx, files, names, sections, detected) ==
            {[key_value_pairs |-> Picked(KVSamples, k, 1),
              raw_text_by_page |-> Picked(TextSamples, t, 1),
              source_file |-> f, project_name |-> n, sections |-> s, detected_tables |-> d] :
                k \in KVPicks(kx), t \in TextPicks(tx), f \in files, n \in names,
                s \in sections, d \in detected}
    IN Records(CoordinateKVs, CoordinateTexts, {<<>>}, {None}, {<<>>}, {<<>>})
         \cup Records(DescriptiveKVs, DescriptiveTexts, {<<>>}, {None}, {<<>>}, {<<>>})
         \cup Records(IdentityKVs, {}, FileSamples, NameSamples, {<<>>}, {<<>>})
         \cup Records({}, FigureTexts, {<<>>}, {None}, SectionSamples, TableSamples)

(***************************************************************************)
(* The state machine of parse_project_from_json.                           *)
(***************************************************************************)
ParserIdle ==
    /\ ppc = "idle"
    /\ json_data = [key_value_pairs |-> <<>>, raw_text_by_page |-> <<>>, source_file |-> <<>>,
                    project_name |-> None, sections |-> <<>>, detected_tables |-> <<>>]
    /\ kv = <<>>
    /\ all_text = <<>>
    /\ project = NewProject(<<>>)
    /\ boundary_coords = NewBoundaryCoords

ParserCalled ==
    /\ ppc = "start"
    /\ json_data \in InputRecords
    /\ kv = <<>>
    /\ all_text = <<>>
    /\ project = NewProject(<<>>)
    /\ boundary_coords = NewBoundaryCoords

\* the defaults, and the collection of kv and all_text
Collect ==
    /\ ppc = "start"
    /\ project' = NewProject(json_data.source_file)
    /\ kv' = json_data.key_value_pairs
    /\ all_text' = JoinNewline(json_data.raw_text_by_page)
    /\ ppc' = "name"
    /\ UNCHANGED <<json_data, boundary_coords>>
    /\ UNCHANGED <<avars, xvars, nvars>>

Name ==
    /\ ppc = "name"
    /\ project' = ProjectName(project, kv, json_data)
    /\ ppc' = "fields"
    /\ UNCHANGED <<json_data, kv, all_text, boundary_coords>>
    /\ UNCHANGED <<avars, xvars, nvars>>

Descriptive ==
    /\ ppc = "fields"
    /\ project' = DescriptiveFields(project, kv, all_text)
    /\ ppc' = "address"
    /\ UNCHANGED <<json_data, kv, all_text, boundary_coords>>
    /\ UNCHANGED <<avars, xvars, nvars>>

Address ==
    /\ ppc = "address"
    /\ project' = AddressFields(project, kv)
    /\ ppc' = "direct"
    /\ UNCHANGED <<json_data, kv, all_text, boundary_coords>>
    /\ UNCHANGED <<avars, xvars, nvars>>

DirectCoordinates ==
    /\ ppc = "direct"
    /\ IF DirectRaises(kv)
       THEN ppc' = "raised" /\ UNCHANGED project
       ELSE ppc' = "kv_boundary" /\ project' = DirectCoords(project, kv)
    /\ UNCHANGED <<json_data, kv, all_text, boundary_coords>>
    /\ UNCHANGED <<avars, xvars, nvars>>

KvBoundaryCentroid ==
    /\ ppc = "kv_boundary"
    /\ IF KvBoundaryRaises(kv)
       THEN ppc' = "raised" /\ UNCHANGED <<project, boundary_coords>>
       ELSE /\ ppc' = "text_simple"
            /\ boundary_coords' = BoundaryFromPairs(NewBoundaryCoords, kv)
            /\ project' = KvCentroid(project, boundary_coords')
    /\ UNCHANGED <<json_data, kv, all_text>>
    /\ UNCHANGED <<avars, xvars, nvars>>

TextSimpleCoordinates ==
    /\ ppc = "text_simple"
    /\ IF TextSimpleRaises(project, all_text)
       THEN ppc' = "raised" /\ UNCHANGED project
       ELSE ppc' = "text_boundary" /\ project' = TextSimple(project, all_text)
    /\ UNCHANGED <<json_data, kv, all_text, boundary_coords>>
    /\ UNCHANGED <<avars, xvars, nvars>>

TextBoundaryCentroid ==
    /\ ppc = "text_boundary"
    /\ IF TextBoundaryRaises(project, all_text)
       THEN ppc' = "raised" /\ UNCHANGED <<project, boundary_coords>>
       ELSE /\ ppc' = "authority"
            /\ IF TextBoundaryEntered(project)
               THEN /\ boundary_coords' = BoundaryFromText(boundary_coords, all_text, 1)
                    /\ project' = TextCentroid(project, boundary_coords')
               ELSE UNCHANGED <<project, boundary_coords>>
    /\ UNCHANGED <<json_data, kv, all_text>>
    /\ UNCHANGED <<avars, xvars, nvars>>

ApprovingAuthority ==
    /\ ppc = "authority"
    /\ project' = Authority(project, kv)
    /\ ppc' = "water"
    /\ UNCHANGED <<json_data, kv, all_text, boundary_coords>>
    /\ UNCHANGED <<avars, xvars, nvars>>

WaterAndPlots ==
    /\ ppc = "water"
    /\ project' = TotalPlots(WaterSource(project, kv, all_text), kv, all_text)
    /\ ppc' = "areas"
    /\ UNCHANGED <<json_data, kv, all_text, boundary_coords>>
    /\ UNCHANGED <<avars, xvars, nvars>>

AreasAndCosts ==
    /\ ppc = "areas"
    /\ project' = Costs(Areas(project, all_text), all_text, json_data.sections)
    /\ ppc' = "tables"
    /\ UNCHANGED <<json_data, kv, all_text, boundary_coords>>
    /\ UNCHANGED <<avars, xvars, nvars>>

PlotTables ==
    /\ ppc = "tables"
    /\ IF PlotsRaise(json_data.detected_tables)
       THEN ppc' = "raised" /\ UNCHANGED project
       ELSE ppc' = "cleanup" /\ project' = FromTables(project, json_data.detected_tables)
    /\ UNCHANGED <<json_data, kv, all_text, boundary_coords>>
    /\ UNCHANGED <<avars, xvars, nvars>>

\* the clean-up of the project name, and the return
Cleanup ==
    /\ ppc = "cleanup"
    /\ project' = CleanupName(project)
    /\ ppc' = "done"
    /\ UNCHANGED <<json_data, kv, all_text, boundary_coords>>
    /\ UNCHANGED <<avars, xvars, nvars>>

(***************************************************************************)
(* detect_heading.  A font size is a whole number of hundredths of a       *)
(* point, << >> when the caller passes none.                               *)
(***************************************************************************)
HeadingLen == 80
CapsLen == 3
HeadingFont == 1200

\* str.isupper(): some cased character, and no lower-case one
IsUpper(s) ==
    /\ \E i \in 1..Len(s) : s[i] \in UpperChars
    /\ \A i \in 1..Len(s) : s[i] \notin LowerChars

\* a variant that admits a line of exactly the limit length
detect_heading_upto(text, font_size, is_bold) ==
    LET t == StripChars(text, WhiteChars)
    IN /\ t # <<>>
       /\ Len(t) <= HeadingLen
       /\ \/ IsUpper(t) /\ Len(t) > CapsLen
          \/ is_bold
          \/ Truthy(font_size) /\ font_size[1] > HeadingFont

detect_heading(text, font_size, is_bold) ==
    LET t == StripChars(text, WhiteChars)
    IN /\ t # <<>>
       /\ Len(t) < HeadingLen
       /\ \/ IsUpper(t) /\ Len(t) > CapsLen
          \/ is_bold
          \/ Truthy(font_size) /\ font_size[1] > HeadingFont

(***************************************************************************)
(* adaptive_pdf_to_json.  A page of the file is what the libraries deliver *)
(* for it: text is page.extract_text(), chars is page.chars already cut    *)
(* into the runs of one y position (each with the size of its first        *)
(* character and whether a bold font occurs in it), ocr is << >> when      *)
(* image_to_string raises and <<text>> otherwise.                          *)
(***************************************************************************)
MaxDocPages == 2
ScannedTextLen == 50
PagesToCheck == 3

\* a text of n characters
Filler(n) == [i \in 1..n |-> "x"]

BodyText == Filler(ScannedTextLen + 1)

CharRuns ==
    { <<>>,
      << [text |-> <<"A", " ", "b">>, size |-> 1400, bold |-> FALSE],
         [text |-> <<" ", "p">>, size |-> 1000, bold |-> FALSE] >> }

PageTexts == {<<>>, <<"p">>, BodyText}

OcrResults == {<<>>, << <<>> >>, << <<"A", "B", "B", "A", "\n", " ", "\n", "p", " ">> >>}

\* the text layer is empty exactly when the page holds no characters
PdfPages ==
    { [text |-> t, chars |-> c, ocr |-> o] :
         t \in PageTexts, c \in CharRuns, o \in OcrResults }

PdfSamples ==
    UNION { {p \in [1..n -> PdfPages] :
                \A i \in 1..n : (p[i].text = <<>>) = (p[i].chars = <<>>)}
            : n \in 0..MaxDocPages }

\* text.split('\n')
RECURSIVE SplitLines(_)
SplitLines(text) ==
    IF \A i \in 1..Len(text) : text[i] # "\n" THEN <<text>>
    ELSE LET i == CHOOSE j \in 1..Len(text) :
                     text[j] = "\n" /\ \A k \in 1..(j - 1) : text[k] # "\n"
         IN <<SubSeq(text, 1, i - 1)>> \o SplitLines(SubSeq(text, i + 1, Len(text)))

\* is_scanned_pdf: no page among the first ones carries more than 50 characters;
\* without pdfplumber and PyMuPDF nothing is read and the answer is True
ScannedPdf(pages, has_reader) ==
    IF ~has_reader THEN TRUE
    ELSE ~ \E i \in 1..MinOf({PagesToCheck, Len(pages)}) :
              Len(StripChars(pages[i].text, WhiteChars)) > ScannedTextLen

\* lines_data of one page of extract_text_with_structure_pdfplumber
LinesData(chars) ==
    [i \in 1..Len(chars) |->
        [text |-> StripChars(chars[i].text, WhiteChars),
         font_size |-> <<chars[i].size>>,
         is_bold |-> chars[i].bold,
         is_heading |-> detect_heading(chars[i].text, <<chars[i].size>>, chars[i].bold)]]

\* the structured page the OCR branch of adaptive_pdf_to_json builds
OcrStructured(page_data) ==
    LET parts == SplitLines(page_data.text)
        kept == SelectSeq([i \in 1..Len(parts) |-> StripChars(parts[i], WhiteChars)],
                          LAMBDA line : line # <<>>)
    IN [page_number |-> page_data.page_number,
        lines |-> [i \in 1..Len(kept) |->
                     [text |-> kept[i], font_size |-> None, is_bold |-> FALSE,
                      is_heading |-> detect_heading(kept[i], None, FALSE)]]]

\* the line loop of build_json_structure over the first n lines of a page
RECURSIVE ReadLines(_, _, _)
ReadLines(f, lines, n) ==
    IF n = 0 THEN f ELSE OnLine(ReadLines(f, lines, n - 1), lines[n])

\* the page loop of build_json_structure over the first n structured pages
RECURSIVE ReadPages(_, _, _)
ReadPages(f, structured, n) ==
    IF n = 0 THEN f
    ELSE LET page_data == structured[n]
             g == BeginPage(ReadPages(f, structured, n - 1), page_data.page_number)
         IN FinishPage(ReadLines(g, page_data.lines, Len(page_data.lines)))

\* the pages of the record, given the page texts and the structured pages
ExtractedPages(texts, structured) ==
    ReadPages(NewFrame(None), structured, Len(structured)).result.extracted_pages

\* build_json_structure, as far as the pages and the metadata go
BuiltDocument(texts, structured, scanned) ==
    [extracted_pages |-> ExtractedPages(texts, structured),
     raw_text_by_page |-> texts,
     metadata |-> [total_pages |-> Len(texts), is_scanned |-> scanned]]

NoDocument == <<>>

ConverterIdle ==
    /\ dpc = "idle"
    /\ pdf = <<>>
    /\ modules = [pdfplumber |-> TRUE, ocr |-> TRUE]
    /\ is_scanned = FALSE
    /\ raw_text_by_page = <<>>
    /\ structured_data = <<>>
    /\ ocr_pages = <<>>
    /\ document = NoDocument

\* adaptive_pdf_to_json has been called on an existing file
ConverterCalled ==
    /\ dpc = "start"
    /\ pdf \in PdfSamples
    /\ modules \in [pdfplumber : BOOLEAN, ocr : BOOLEAN]
    /\ is_scanned = FALSE
    /\ raw_text_by_page = <<>>
    /\ structured_data = <<>>
    /\ ocr_pages = <<>>
    /\ document = NoDocument

\* is_scanned = is_scanned_pdf(...), and the choice of the first path
DetectScanned ==
    /\ dpc = "start"
    /\ \E scanned \in {ScannedPdf(pdf, modules.pdfplumber \/ modules.ocr)} :
          /\ is_scanned' = scanned
          /\ dpc' = IF modules.pdfplumber /\ ~scanned THEN "plumber" ELSE "fallback"
    /\ UNCHANGED <<pdf, modules, raw_text_by_page, structured_data, ocr_pages, document>>
    /\ UNCHANGED <<avars, pvars, xvars, fvars, bvars>>

\* one iteration of the page loop of extract_text_with_structure_pdfplumber
PlumberPage ==
    /\ dpc = "plumber"
    /\ Len(raw_text_by_page) < Len(pdf)
    /\ LET page_num == Len(raw_text_by_page) + 1
           page == pdf[page_num]
       IN /\ raw_text_by_page' = Append(raw_text_by_page, page.text)
          /\ structured_data' =
                IF page.chars # <<>>
                THEN Append(structured_data,
                            [page_number |-> page_num, lines |-> LinesData(page.chars)])
                ELSE structured_data
    /\ UNCHANGED <<dpc, pdf, modules, is_scanned, ocr_pages, document>>
    /\ UNCHANGED <<avars, pvars, xvars, fvars, bvars>>

\* pdfplumber raises in the page loop, at page.extract_text() or at
\* page.chars; the except clause returns what the lists hold
PlumberRaises ==
    /\ dpc = "plumber"
    /\ Len(raw_text_by_page) < Len(pdf)
    /\ \E at \in {"extract_text", "chars"} :
          raw_text_by_page' =
             IF at = "chars"
             THEN Append(raw_text_by_page, pdf[Len(raw_text_by_page) + 1].text)
             ELSE raw_text_by_page
    /\ dpc' = "fallback"
    /\ UNCHANGED <<pdf, modules, is_scanned, structured_data, ocr_pages, document>>
    /\ UNCHANGED <<avars, pvars, xvars, fvars, bvars>>

\* the page loop ends and the function returns its two lists
PlumberReturns ==
    /\ dpc = "plumber"
    /\ Len(raw_text_by_page) = Len(pdf)
    /\ dpc' = "fallback"
    /\ UNCHANGED <<pdf, modules, is_scanned, raw_text_by_page, structured_data, ocr_pages, document>>
    /\ UNCHANGED <<avars, pvars, xvars, fvars, bvars>>

\* if is_scanned or not raw_text_by_page: the OCR path, or ImportError
Fallback ==
    /\ dpc = "fallback"
    /\ dpc' = IF is_scanned \/ raw_text_by_page = <<>>
              THEN (IF modules.ocr THEN "ocr" ELSE "raised")
              ELSE "build"
    /\ UNCHANGED <<pdf, modules, is_scanned, raw_text_by_page, structured_data, ocr_pages, document>>
    /\ UNCHANGED <<avars, pvars, xvars, fvars, bvars>>

\* one iteration of the page loop of extract_with_ocr
OcrPage ==
    /\ dpc = "ocr"
    /\ Len(ocr_pages) < Len(pdf)
    /\ LET page_num == Len(ocr_pages) + 1
           ocr == pdf[page_num].ocr
       IN ocr_pages' = Append(ocr_pages,
                              [page_number |-> page_num,
                               text |-> IF ocr = <<>> THEN <<>> ELSE ocr[1],
                               extraction_method |-> IF ocr = <<>> THEN "OCR_FAILED" ELSE "OCR"])
    /\ UNCHANGED <<dpc, pdf, modules, is_scanned, raw_text_by_page, structured_data, document>>
    /\ UNCHANGED <<avars, pvars, xvars, fvars, bvars>>

\* rendering a page raises outside the try of the loop: the call raises
OcrRaises ==
    /\ dpc = "ocr"
    /\ Len(ocr_pages) < Len(pdf)
    /\ dpc' = "raised"
    /\ UNCHANGED <<pdf, modules, is_scanned, raw_text_by_page, structured_data, ocr_pages, document>>
    /\ UNCHANGED <<avars, pvars, xvars, fvars, bvars>>

\* extract_with_ocr returns: the page texts are replaced, the structured
\* pages are appended
OcrReturns ==
    /\ dpc = "ocr"
    /\ Len(ocr_pages) = Len(pdf)
    /\ raw_text_by_page' = [i \in 1..Len(ocr_pages) |-> ocr_pages[i].text]
    /\ structured_data' =
          structured_data \o [i \in 1..Len(ocr_pages) |-> OcrStructured(ocr_pages[i])]
    /\ dpc' = "build"
    /\ UNCHANGED <<pdf, modules, is_scanned, ocr_pages, document>>
    /\ UNCHANGED <<avars, pvars, xvars, fvars, bvars>>

\* result = build_json_structure(...), and the return
Build ==
    /\ dpc = "build"
    /\ document' = BuiltDocument(raw_text_by_page, structured_data, is_scanned)
    /\ dpc' = "done"
    /\ UNCHANGED <<pdf, modules, is_scanned, raw_text_by_page, structured_data, ocr_pages>>
    /\ UNCHANGED <<avars, pvars, xvars, fvars, bvars>>

(***************************************************************************)
(* Single calls of detect_heading and of extract_key_value_pairs.          *)
(***************************************************************************)
\* a text of n upper-case letters
Capitals(n) == [i \in 1..n |-> "A"]

HeadingTexts ==
    { <<>>, <<" ">>,
      <<"A", "B", "B", "A">>, <<"A", "B", "B">>, <<"A", "B", "1", "B">>,
      <<"1", "2", "3", "4">>, <<"a", "b", "b", "a">>, <<"A", " ", "b">>,
      <<" ", "A", "B", "B", "A", "\n">>,
      Filler(HeadingLen - 1), Filler(HeadingLen),
      Capitals(HeadingLen - 1), Capitals(HeadingLen),
      <<" ">> \o Filler(HeadingLen - 1) \o <<" ">> }

FontSizes == {None, <<0>>, <<HeadingFont>>, <<HeadingFont + 1>>}

FunctionIdle == fpc = "idle" /\ fargs = <<>> /\ fresult = <<>>

HeadingCalled ==
    /\ fpc = "heading"
    /\ fargs \in [text : HeadingTexts, font_size : FontSizes, is_bold : BOOLEAN]
    /\ fresult = <<>>

\* the call of detect_heading returns
DetectHeading ==
    /\ fpc = "heading"
    /\ fresult' = detect_heading(fargs.text, fargs.font_size, fargs.is_bold)
    /\ fpc' = "heading_done"
    /\ UNCHANGED fargs
    /\ UNCHANGED <<avars, pvars, xvars, dvars, bvars>>

\* the raw keys: runs of one character, of a length about the limit
KeyLengths == {1, MaxKeyLen - 1, MaxKeyLen, MaxKeyLen + 1}

\* lines <padding> key <padding> separator value: the key of word characters or
\* of characters the clean-up removes, the value present or empty
PairTexts ==
    { pad \o [i \in 1..n |-> c] \o pad \o sep \o value :
         pad \in {<<>>, <<" ">>},
         n \in KeyLengths,
         c \in {"x", "!"},
         sep \in {<<":">>, <<" ", "-", " ">>},
         value \in {<<>>, <<"v">>} }

PairsCalled ==
    /\ fpc = "pairs"
    /\ fargs \in [text : PairTexts]
    /\ fresult = <<>>

\* the call of extract_key_value_pairs returns
ExtractPairs ==
    /\ fpc = "pairs"
    /\ fresult' = extract_key_value_pairs(fargs.text)
    /\ fpc' = "pairs_done"
    /\ UNCHANGED fargs
    /\ UNCHANGED <<avars, pvars, xvars, dvars, bvars>>

(***************************************************************************)
(* The batch loops: batch_convert_with_progress, process_all_pdfs of       *)
(* RERAPDFProcessor and process_filtered_files of S3RERAPDFProcessor.  A   *)
(* file is known by its name, a number; the store maps a name to the       *)
(* output JSON of that name (a local file or an S3 object), << >> when     *)
(* there is none.  What the libraries and the network do with one file is  *)
(* the record env, chosen freely for every iteration.  successful of       *)
(* batch_convert_with_progress is the counter pdfs_processed here.         *)
(***************************************************************************)
MaxFiles == 2

Programs == {"batch", "local", "s3"}

\* a JSON some earlier run left, what a conversion of this run writes, and
\* the file that open() created and json.dump did not finish
OldJson(name) == <<[source |-> name, run |-> 0, complete |-> TRUE]>>
Written(name, run) == <<[source |-> name, run |-> run, complete |-> TRUE]>>
Truncated(name, run) == <<[source |-> name, run |-> run, complete |-> FALSE]>>

NewStats == [pdfs_processed |-> 0, pdfs_skipped |-> 0, pdfs_failed |-> 0, projects_extracted |-> 0]

Count(b, counter) == [b EXCEPT !.stats[counter] = @ + 1]

Environments ==
    [head : {"answers", "error"},
     download : {"ok", "fails"},
     convert : {"ok", "raises"},
     save : {"ok", "open_raises", "dump_raises"},
     extract : {"ok", "raises"}]

\* one iteration of the loop of batch_convert_with_progress
BatchStep(b, name, env) ==
    IF b.skip_existing /\ b.store[name] # <<>> THEN Count(b, "pdfs_skipped")
    ELSE LET c == [b EXCEPT !.converted = Append(@, name)]
         IN CASE env.convert = "raises" -> Count(c, "pdfs_failed")
              [] env.convert = "ok" /\ env.save = "open_raises" -> Count(c, "pdfs_failed")
              [] env.convert = "ok" /\ env.save = "dump_raises" ->
                    Count([c EXCEPT !.store[name] = Truncated(name, b.run)], "pdfs_failed")
              [] env.convert = "ok" /\ env.save = "ok" ->
                    Count([c EXCEPT !.store[name] = Written(name, b.run)], "pdfs_processed")

\* a variant of convert_pdf_to_json that converts without looking for the JSON
ConvertAlways(b, name, env) ==
    LET c == [b EXCEPT !.converted = Append(@, name)]
    IN CASE env.convert = "raises" -> [Count(c, "pdfs_failed") EXCEPT !.json_file = FALSE]
         [] env.convert = "ok" /\ env.save = "open_raises" ->
               [Count(c, "pdfs_failed") EXCEPT !.json_file = FALSE]
         [] env.convert = "ok" /\ env.save = "dump_raises" ->
               [Count([c EXCEPT !.store[name] = Truncated(name, b.run)], "pdfs_failed")
                   EXCEPT !.json_file = FALSE]
         [] env.convert = "ok" /\ env.save = "ok" ->
               [Count([c EXCEPT !.store[name] = Written(name, b.run)], "pdfs_processed")
                   EXCEPT !.json_file = TRUE]

\* RERAPDFProcessor.convert_pdf_to_json; json_file tells whether it returned a path
ConvertPdfToJson(b, name, env) ==
    IF b.skip_existing /\ b.store[name] # <<>>
    THEN [Count(b, "pdfs_skipped") EXCEPT !.json_file = TRUE]
    ELSE ConvertAlways(b, name, env)

\* RERAPDFProcessor.process_single_pdf inside the try of process_all_pdfs:
\* extract_project_data reads the JSON back and returns None when anything raises
LocalStep(b, name, env) ==
    LET c == ConvertPdfToJson(b, name, env)
    IN IF ~c.json_file THEN c
       ELSE IF ~c.store[name][1].complete \/ env.extract = "raises" THEN c
       ELSE Count(c, "projects_extracted")

\* a variant of the failure branches of the S3 step that counts nothing
DropFailure(b) == b

\* the failure branches of S3RERAPDFProcessor.process_single_pdf
CountFailure(b) == Count(b, "pdfs_failed")

\* S3RERAPDFProcessor.process_single_pdf inside the try of process_filtered_files
S3Step(b, name, env) ==
    IF b.skip_existing /\ env.head = "error" THEN Count(b, "pdfs_failed")
    ELSE IF b.skip_existing /\ b.store[name] # <<>> THEN Count(b, "pdfs_skipped")
    ELSE IF env.download = "fails" THEN CountFailure(b)
    ELSE LET c == [b EXCEPT !.converted = Append(@, name)]
             u == [c EXCEPT !.store[name] = Written(name, b.run)]
         IN CASE env.convert = "raises" -> CountFailure(c)
              [] env.convert = "ok" /\ env.save # "ok" -> CountFailure(c)
              [] env.convert = "ok" /\ env.save = "ok" /\ env.extract = "raises" ->
                    CountFailure(u)
              [] env.convert = "ok" /\ env.save = "ok" /\ env.extract = "ok" ->
                    Count(Count(u, "projects_extracted"), "pdfs_processed")

\* the locals and the store a step works on
BatchFrame ==
    [skip_existing |-> skip_existing, store |-> json_store, converted |-> converted,
     stats |-> stats, run |-> run_no, json_file |-> FALSE]

BatchIdle ==
    /\ bpc = "idle"
    /\ program = "batch"
    /\ skip_existing = TRUE
    /\ pdf_files = <<>>
    /\ file_idx = 1
    /\ stats = NewStats
    /\ json_store = <<>>
    /\ converted = <<>>
    /\ run_no = 1
    /\ run_start = [store |-> <<>>, before |-> <<>>]

\* a first run has listed its files and enters its loop
BatchCalled ==
    /\ bpc = "loop"
    /\ program \in Programs
    /\ skip_existing \in BOOLEAN
    /\ \E n \in 0..MaxFiles :
          /\ pdf_files = [i \in 1..n |-> i]
          /\ json_store \in {st \in [1..n -> {<<>>} \cup {OldJson(i) : i \in 1..n}] :
                                \A i \in 1..n : st[i] \in {<<>>, OldJson(i)}}
    /\ file_idx = 1
    /\ stats = NewStats
    /\ converted = <<>>
    /\ run_no = 1
    /\ run_start = [store |-> json_store, before |-> <<>>]

\* the step of the running program has taken the frame to b
StepTo(b) ==
    /\ stats' = b.stats
    /\ json_store' = b.store
    /\ converted' = b.converted
    /\ file_idx' = file_idx + 1
    /\ UNCHANGED <<bpc, program, skip_existing, pdf_files, run_no, run_start>>
    /\ UNCHANGED <<avars, pvars, xvars, dvars, fvars>>

BatchFile ==
    /\ bpc = "loop" /\ program = "batch"
    /\ file_idx <= Len(pdf_files)
    /\ \E env \in Environments : StepTo(BatchStep(BatchFrame, pdf_files[file_idx], env))

LocalFile ==
    /\ bpc = "loop" /\ program = "local"
    /\ file_idx <= Len(pdf_files)
    /\ \E env \in Environments : StepTo(LocalStep(BatchFrame, pdf_files[file_idx], env))

S3File ==
    /\ bpc = "loop" /\ program = "s3"
    /\ file_idx <= Len(pdf_files)
    /\ \E env \in Environments : StepTo(S3Step(BatchFrame, pdf_files[file_idx], env))

\* the loop is over and the run returns
FinishRun ==
    /\ bpc = "loop"
    /\ file_idx > Len(pdf_files)
    /\ bpc' = "done"
    /\ UNCHANGED <<program, skip_existing, pdf_files, file_idx, stats, json_store, converted,
                   run_no, run_start>>
    /\ UNCHANGED <<avars, pvars, xvars, dvars, fvars>>

\* the program is started again on the same files, in a new process
SecondRun ==
    /\ bpc = "done"
    /\ run_no = 1
    /\ run_no' = run_no + 1
    /\ skip_existing' \in BOOLEAN
    /\ run_start' = [store |-> json_store, before |-> stats]
    /\ stats' = NewStats
    /\ converted' = <<>>
    /\ file_idx' = 1
    /\ bpc' = "loop"
    /\ UNCHANGED <<program, pdf_files, json_store>>
    /\ UNCHANGED <<avars, pvars, xvars, dvars, fvars>>

(***************************************************************************)
(* The specifications.                                                     *)
(***************************************************************************)
TablesIdle == tpc = "idle" /\ page_table = <<>> /\ extracted = <<>>

Init == AssemblerIdle /\ ParserIdle /\ PageIdle /\ TablesIdle /\ ConverterIdle /\ FunctionIdle /\ BatchIdle

Next ==
    \/ StartDocument
    \/ StartPage
    \/ BlankLine
    \/ HeadingLine
    \/ KeyValueLine
    \/ ListLine
    \/ ParagraphLine
    \/ EndPage
    \/ EndPages
    \/ AssociateTable
    \/ Return

Spec == Init /\ [][Next]_vars

InitParse == AssemblerIdle /\ ParserCalled /\ PageIdle /\ TablesIdle /\ ConverterIdle /\ FunctionIdle /\ BatchIdle

NextParse ==
    \/ Collect
    \/ Name
    \/ Descriptive
    \/ Address
    \/ DirectCoordinates
    \/ KvBoundaryCentroid
    \/ TextSimpleCoordinates
    \/ TextBoundaryCentroid
    \/ ApprovingAuthority
    \/ WaterAndPlots
    \/ AreasAndCosts
    \/ PlotTables
    \/ Cleanup

SpecParse == InitParse /\ [][NextParse]_vars

InitPage == PageEntered /\ ParserIdle /\ TablesIdle /\ ConverterIdle /\ FunctionIdle /\ BatchIdle

NextPage ==
    \/ ReadLine
    \/ ClosePage

SpecPage == InitPage /\ [][NextPage]_vars

InitTables == AssemblerIdle /\ ParserIdle /\ PageIdle /\ TablesOpened /\ ConverterIdle /\ FunctionIdle /\ BatchIdle

NextTables == ExtractTables

SpecTables == InitTables /\ [][NextTables]_vars

InitChain == PageEntered /\ ParserIdle /\ TablesIdle /\ ConverterIdle /\ FunctionIdle /\ BatchIdle

NextChain ==
    \/ ReadChainLine
    \/ ClosePage

SpecChain == InitChain /\ [][NextChain]_vars

InitConvert ==
    AssemblerIdle /\ ParserIdle /\ PageIdle /\ TablesIdle /\ ConverterCalled /\ FunctionIdle /\ BatchIdle

NextConvert ==
    \/ DetectScanned
    \/ PlumberPage
    \/ PlumberRaises
    \/ PlumberReturns
    \/ Fallback
    \/ OcrPage
    \/ OcrRaises
    \/ OcrReturns
    \/ Build

SpecConvert == InitConvert /\ [][NextConvert]_vars

InitHeading ==
    AssemblerIdle /\ ParserIdle /\ PageIdle /\ TablesIdle /\ ConverterIdle /\ HeadingCalled /\ BatchIdle

NextHeading == DetectHeading

SpecHeading == InitHeading /\ [][NextHeading]_vars

InitPairs ==
    AssemblerIdle /\ ParserIdle /\ PageIdle /\ TablesIdle /\ ConverterIdle /\ PairsCalled /\ BatchIdle

NextPairs == ExtractPairs

SpecPairs == InitPairs /\ [][NextPairs]_vars

InitBatch ==
    /\ AssemblerIdle /\ ParserIdle /\ PageIdle /\ TablesIdle /\ ConverterIdle /\ FunctionIdle
    /\ BatchCalled

NextBatch ==
    \/ BatchFile
    \/ LocalFile
    \/ S3File
    \/ FinishRun
    \/ SecondRun

SpecBatch == InitBatch /\ [][NextBatch]_vars

(***************************************************************************)
(* Properties of build_json_structure.                                     *)
(***************************************************************************)
IsPrefix(s, t) == Len(s) <= Len(t) /\ SubSeq(t, 1, Len(s)) = s

RECURSIVE Flatten(_)
Flatten(ss) == IF ss = <<>> THEN <<>> ELSE Head(ss) \o Flatten(Tail(ss))

\* the headings met so far in the document, in order
HeadingsSoFar(f) ==
    Flatten([i \in 1..Len(f.result.extracted_pages) |-> f.result.extracted_pages[i].headings])
        \o (IF pc = "lines" THEN f.page_content.headings ELSE <<>>)

InCall == pc \in {"pages", "lines", "tables", "done"}

ContentPages(key) ==
    IF key \in DOMAIN hist.content_page THEN hist.content_page[key] ELSE <<>>

C1_OneEntryPerKey ==
    LET secs == asm.result.sections
        heads == HeadingsSoFar(asm)
    IN /\ \A i, j \in 1..Len(secs) : secs[i].key = secs[j].key => i = j
       /\ SectionKeys(secs) = {normalize_section_name(heads[i]) : i \in 1..Len(heads)}
       /\ \A i \in 1..Len(secs) :
             LET from == ContentPages(secs[i].key)
             IN /\ Len(from) = Len(secs[i].content)
                /\ \A j \in 1..Len(from) :
                      /\ j > 1 => from[j - 1] <= from[j]
                      /\ \E n \in 1..Len(asm.result.extracted_pages[from[j]].paragraphs) :
                            asm.result.extracted_pages[from[j]].paragraphs[n] = secs[i].content[j]

C1_NeverReset ==
    (pc \in {"pages", "lines"}) =>
        \A i \in 1..Len(asm.result.sections) :
            /\ i <= Len(asm'.result.sections)
            /\ asm'.result.sections[i].key = asm.result.sections[i].key
            /\ asm'.result.sections[i].heading = asm.result.sections[i].heading
            /\ IsPrefix(asm.result.sections[i].content, asm'.result.sections[i].content)
            /\ DOMAIN asm.result.sections[i].key_value_pairs
                   \subseteq DOMAIN asm'.result.sections[i].key_value_pairs

\* C1: in build_json_structure the sections mapping holds exactly one entry per
\* distinct normalized heading key met so far, a step of the page loop (a
\* repeated heading included) keeps every existing entry with its heading, its
\* content as a prefix and its key-value keys, and a section's content lists
\* paragraphs of the pages in page order.
C1_SameSection == [](InCall => C1_OneEntryPerKey) /\ [][C1_NeverReset]_vars

\* C1 witness: two differently written headings with one key, on two pages,
\* have opened one section, which still holds the paragraph of the first page.
C1_Witness ==
    /\ pc = "done"
    /\ Len(asm.result.extracted_pages) = 2
    /\ Len(asm.result.sections) = 1
    /\ asm.result.extracted_pages[1].headings # <<>>
    /\ asm.result.extracted_pages[2].headings # <<>>
    /\ asm.result.extracted_pages[1].headings[1] # asm.result.extracted_pages[2].headings[1]
    /\ asm.result.sections[1].content # <<>>
    /\ ContentPages(asm.result.sections[1].key)[1] = 1

\* C2 (as claimed): when a page has been processed, each of its paragraphs is
\* in the content of the section that was active when the paragraph was
\* flushed, contributed by this page, or in unstructured_text with the page
\* number when no section was active then.
C2_OwnerAtFlush ==
    (pc = "pages" /\ asm.result.extracted_pages # <<>>) =>
        LET page == asm.page_content
        IN \A i \in 1..Len(page.paragraphs) :
              LET owner == hist.flush_owner[i]
              IN IF owner = None
                 THEN \E j \in 1..Len(asm.result.unstructured_text) :
                         asm.result.unstructured_text[j] =
                             [page |-> page.page_number, text |-> page.paragraphs[i]]
                 ELSE LET sec == SectionOf(asm.result.sections, owner)
                      IN \E j \in 1..Len(sec.content) :
                            /\ sec.content[j] = page.paragraphs[i]
                            /\ j <= Len(ContentPages(owner))
                            /\ ContentPages(owner)[j] = page.page_number

C8_KeysNormalized ==
    \A i \in 1..Len(asm.result.sections) :
        LET key == asm.result.sections[i].key
        IN /\ key # <<>>
           /\ \A n \in 1..Len(key) : key[n] \in AsciiLowerChars \cup DigitChars \cup {"_"}
           /\ key[1] # "_"
           /\ key[Len(key)] # "_"
           /\ \A n \in 1..(Len(key) - 1) : ~(key[n] = "_" /\ key[n + 1] = "_")

\* the step read a line that the page loop routes to key-value extraction
KeyValueStep ==
    /\ pc = "lines"
    /\ lines_read' = lines_read + 1
    /\ LineText(asm'.line_info) # <<>>
    /\ ~asm'.line_info.is_heading
    /\ IsKeyValueLine(LineText(asm'.line_info))

C9_Routing ==
    KeyValueStep =>
        LET kv_pairs == extract_key_value_pairs(LineText(asm'.line_info))
            heads == HeadingsSoFar(asm)
        IN /\ \A k \in DOMAIN kv_pairs :
                 /\ k \in DOMAIN asm'.page_content.key_value_pairs
                 /\ asm'.page_content.key_value_pairs[k] = kv_pairs[k]
           /\ IF heads # <<>>
              THEN LET key == normalize_section_name(heads[Len(heads)])
                       sec == SectionOf(asm'.result.sections, key)
                   IN /\ \A k \in DOMAIN kv_pairs :
                            k \in DOMAIN sec.key_value_pairs /\ sec.key_value_pairs[k] = kv_pairs[k]
                      /\ asm'.result.key_value_pairs = asm.result.key_value_pairs
              ELSE /\ \A k \in DOMAIN kv_pairs :
                         /\ k \in DOMAIN asm'.result.key_value_pairs
                         /\ asm'.result.key_value_pairs[k] = kv_pairs[k]
                   /\ asm'.result.sections = asm.result.sections

\* C9: every pair extracted from a key-value line is written to the
\* key_value_pairs of the section opened by the most recent heading of the
\* document (this page or an earlier one) when there is one, the top level
\* staying as it was, and otherwise to the top-level key_value_pairs, the
\* sections staying as they were; in both cases also to the page's.
C9_KeyValueRouting == [][C9_Routing]_vars

\* C9 witness: a pair read on page 2 sits in the section opened on page 1 and
\* in page 2's pairs, and not at the top level.
C9_Witness ==
    /\ pc = "lines"
    /\ asm.page_content.page_number = 2
    /\ asm.page_content.headings = <<>>
    /\ asm.page_content.key_value_pairs # EmptyDict
    /\ Len(asm.result.sections) = 1
    /\ asm.result.sections[1].key_value_pairs = asm.page_content.key_value_pairs
    /\ asm.result.key_value_pairs = EmptyDict

\* C10: the frame of a call, and so the record it returns, is the one the same
\* call has in a process that assembled no document before; every call starts
\* with no section, no key-value pair and no current section.
C10_Isolated ==
    /\ InCall => asm = iso
    /\ (pc = "pages" /\ asm.result.extracted_pages = <<>>) =>
          /\ asm.result.sections = <<>>
          /\ asm.result.key_value_pairs = EmptyDict
          /\ asm.result.unstructured_text = <<>>
          /\ asm.current_section = None

\* C10 witness: a call returns a record with sections and key-value pairs in
\* a process whose earlier call returned a record with sections.
C10_Witness ==
    /\ warm
    /\ pc = "done"
    /\ asm.result.sections # <<>>
    /\ asm.result.sections[1].key_value_pairs # EmptyDict
    /\ asm.result.sections[1].content # <<>>

(***************************************************************************)
(* Properties of parse_project_from_json.                                  *)
(***************************************************************************)
Returned == ppc = "done"

\* C4: once a step has given the project's latitude (resp. longitude) an
\* accepted value, no later step of the coordinate resolution changes it.
C4_Kept ==
    /\ project.latitude # None => project'.latitude = project.latitude
    /\ project.longitude # None => project'.longitude = project.longitude

C4_NeverOverwritten == [][C4_Kept]_vars

\* C5: the latitude of the project is absent or strictly between 10 and 17, and
\* its longitude is absent or strictly between 73 and 79, whichever step wrote
\* it; 0, 10, 17, 73, 79 and values out of range are never output.
C5_CoordinatesInRange ==
    /\ project.latitude = None \/ (1000 < project.latitude[1] /\ project.latitude[1] < 1700)
    /\ project.longitude = None \/ (7300 < project.longitude[1] /\ project.longitude[1] < 7900)

\* a call that returned: its latitude candidate, exactly 17, was rejected and
\* its longitude candidate was accepted
C5_Witness ==
    /\ Returned
    /\ HasKey(kv, <<"latitude">>)
    /\ extract_float(Get(kv, <<"latitude">>)) = <<1700>>
    /\ project.latitude = None
    /\ project.longitude # None

\* C6: parse_project_from_json never raises, whatever strings the key-value
\* pairs and the body text hold.
C6_NeverRaises == ppc # "raised"

\* C7: for type, status, description, start_date, completion_date, total_plots
\* and water_source, a value that the key-value source yields is the result
\* of the field, whatever the body text matches.
FromKeyValues(field) ==
    LET Value(key) == IF HasKey(kv, key) THEN clean_text(Get(kv, key)) ELSE <<>>
        dates == Value(<<"project", "start", "date">>)
    IN CASE field = "type" -> StripChars(BeforeToken(Value(<<"project", "type">>), "Project Status"), WhiteChars)
         [] field = "status" -> Value(<<"project", "status">>)
         [] field = "description" -> Value(<<"description">>)
         [] field = "start_date" -> OrEmpty(extract_date(dates))
         [] field = "completion_date" ->
                IF KeyHas(dates, "Proposed Completion Date")
                THEN OrEmpty(extract_date(AfterLastToken(dates, "Proposed Completion Date")))
                ELSE <<>>
         [] field = "water_source" ->
                StripChars(StripRight(Value(<<"source", "of", "water">>), {","}), WhiteChars)

C7_KeyValueFirst ==
    Returned =>
        /\ \A field \in {"type", "status", "description", "start_date", "completion_date",
                         "water_source"} :
              FromKeyValues(field) # <<>> => project[field] = FromKeyValues(field)
        /\ HasKey(kv, <<"number", "of", "plots">>)
              /\ Truthy(extract_number(Get(kv, <<"number", "of", "plots">>)))
              => project.total_plots = extract_number(Get(kv, <<"number", "of", "plots">>))[1]

(***************************************************************************)
(* Properties of one page of build_json_structure.                         *)
(***************************************************************************)
\* the line a step has just iterated
LineRead == page_lines' # page_lines

\* C11: a line flagged as heading is treated only as a heading, whatever its
\* text holds; another line that holds ":", " - " or the arrow is treated as
\* key-value even if it starts with a list marker; a line becomes a list item
\* only when it passes neither test, and paragraph text only when it passes
\* none of the three.
C11_Precedence ==
    LineRead =>
        LET line == asm'.line_info
            text == LineText(line)
            page == asm.page_content
            page2 == asm'.page_content
            KeptAsText == /\ asm'.current_paragraph = asm.current_paragraph
                          /\ asm'.current_list = asm.current_list
                          /\ page2.paragraphs = page.paragraphs
                          /\ page2.lists = page.lists
        IN /\ line.is_heading =>
                /\ page2.headings = Append(page.headings, text)
                /\ page2.key_value_pairs = page.key_value_pairs
                /\ asm'.result.key_value_pairs = asm.result.key_value_pairs
                /\ asm'.current_paragraph = <<>> /\ asm'.current_list = <<>>
                /\ asm'.current_section = normalize_section_name(text)
           /\ ~line.is_heading /\ IsKeyValueLine(text) =>
                /\ page2.key_value_pairs =
                       DictUpdate(page.key_value_pairs, extract_key_value_pairs(text))
                /\ page2.headings = page.headings
                /\ KeptAsText
           /\ ~line.is_heading /\ ~IsKeyValueLine(text) /\ IsListLine(text) =>
                /\ asm'.current_list = Append(asm.current_list, text)
                /\ asm'.current_paragraph = <<>>
                /\ page2.headings = page.headings
                /\ page2.key_value_pairs = page.key_value_pairs
           /\ asm'.current_paragraph = Append(asm.current_paragraph, text) <=>
                ~line.is_heading /\ ~IsKeyValueLine(text) /\ ~IsListLine(text)

C11_HeadingKeyValueListParagraph == [][C11_Precedence]_vars

\* a page on which a heading line held a colon and a list marker, and a
\* key-value line started with a list marker, and no list was opened
C11_Witness ==
    /\ \E i \in 1..Len(page_lines) :
          /\ page_lines[i].is_heading
          /\ IsKeyValueLine(LineText(page_lines[i])) /\ IsListLine(LineText(page_lines[i]))
    /\ \E i \in 1..Len(page_lines) :
          /\ ~page_lines[i].is_heading
          /\ IsKeyValueLine(LineText(page_lines[i])) /\ IsListLine(LineText(page_lines[i]))
    /\ asm.page_content.headings # <<>>
    /\ asm.page_content.key_value_pairs # EmptyDict
    /\ asm.current_list = <<>> /\ asm.page_content.lists = <<>>

\* the texts of the lines of the page that took branch kind, in order
TextsOfKind(kind) ==
    LET picked == SelectSeq(page_lines, LAMBDA line : LineKind(line) = kind)
    IN [i \in 1..Len(picked) |-> LineText(picked[i])]

\* the pairs of a sequence of key-value lines, a later line overriding an earlier one
RECURSIVE PairsOf(_)
PairsOf(texts) ==
    IF texts = <<>> THEN EmptyDict
    ELSE DictUpdate(PairsOf(SubSeq(texts, 1, Len(texts) - 1)),
                    extract_key_value_pairs(texts[Len(texts)]))

\* the page is over and its lines were one heading, then key-value lines,
\* then paragraph lines, then list lines
HeadingPairsTextList ==
    /\ pc = "pages"
    /\ \E a, b \in 2..Len(page_lines) :
          /\ a < b /\ b < Len(page_lines)
          /\ \A i \in 1..Len(page_lines) :
                LineKind(page_lines[i]) =
                    IF i = 1 THEN "heading" ELSE IF i <= a THEN "key_value"
                    ELSE IF i <= b THEN "paragraph" ELSE "list"

\* C12: a single page made of one heading, key-value lines, paragraph lines
\* and then list lines gives exactly one section, keyed by the normalized
\* heading, that holds the pairs of the key-value lines and the paragraph as
\* its content; the list lines are one list of the page's lists;
\* unstructured_text and the top-level key_value_pairs are empty.
C12_OnePage ==
    HeadingPairsTextList =>
        /\ Len(asm.result.sections) = 1
        /\ asm.result.sections[1].key = normalize_section_name(LineText(page_lines[1]))
        /\ asm.result.sections[1].heading = LineText(page_lines[1])
        /\ asm.result.sections[1].key_value_pairs = PairsOf(TextsOfKind("key_value"))
        /\ asm.result.sections[1].content = <<JoinSpace(TextsOfKind("paragraph"))>>
        /\ asm.result.extracted_pages[1].lists = <<TextsOfKind("list")>>
        /\ asm.result.unstructured_text = <<>>
        /\ asm.result.key_value_pairs = EmptyDict

C12_Witness ==
    /\ HeadingPairsTextList
    /\ asm.result.sections[1].key_value_pairs # EmptyDict
    /\ asm.result.sections[1].content # <<>>

\* C19: the key extract_key_value_pairs stores for a raw key text is the
\* section-name normalization of that text, for the colon pattern and for the
\* " - " pattern.
C19_KeysLikeSectionNames ==
    \A i \in 1..Len(page_lines) :
        LineKind(page_lines[i]) = "key_value" =>
            \A m \in {Pattern1Match(LineText(page_lines[i])),
                      Pattern2Match(LineText(page_lines[i]), 1)} :
                m # <<>> /\ StoredKey(m[1]) # <<>> =>
                    StoredKey(m[1]) = normalize_section_name(m[1].key)

(***************************************************************************)
(* Properties of extract_tables_pdfplumber.                                *)
(***************************************************************************)
TableExtracted == tpc = "done" /\ extracted # <<>>

\* C13: has_header is true exactly when every one of the first (up to 5)
\* cells of the first row is a non-empty string shorter than 50 characters
\* that is not a pure decimal number.
C13_HeaderExactly ==
    TableExtracted =>
        (extracted[1].has_header <=>
            \A i \in 1..Len(page_table[1]) :
                i <= 5 =>
                    /\ page_table[1][i] # <<>>
                    /\ Len(Trimmed(page_table[1][i])) < 50
                    /\ ~IsDecimal(Trimmed(page_table[1][i])))

\* C14: a table that is not header-like, a table of a single row included,
\* has as data every non-empty row of the grid, in order, each a list of
\* trimmed cell strings, and row_count is the number of these rows.
C14_EveryRowKept ==
    TableExtracted /\ ~extracted[1].has_header =>
        LET kept == SelectSeq(page_table, KeptRow)
        IN /\ extracted[1].data = [i \in 1..Len(kept) |-> RowList(kept[i])]
           /\ extracted[1].row_count = Len(kept)

(***************************************************************************)
(* Properties of the coordinate resolution of parse_project_from_json.     *)
(***************************************************************************)
\* the key-value steps are over and did not raise
KeyValuesDone ==
    ppc \in {"text_simple", "text_boundary", "authority", "water", "areas", "tables", "cleanup",
             "done"}

AcceptedLat(v) == v # 0 /\ 1000 < v /\ v < 1700
AcceptedLon(v) == v # 0 /\ 7300 < v /\ v < 7900

\* the accepted value of the direct field key, a set of one value at most
DirectAccepted(key, Accepted(_)) ==
    {v \in {FloatValue(FirstNumRun(kv[i].value)) :
                i \in {j \in 1..Len(kv) : kv[j].key = <<key>> /\ FirstNumRun(kv[j].value) # <<>>}} :
        Accepted(v)}

\* the boundary values the key-value pairs give
KvBoundary == BoundaryFromPairs(NewBoundaryCoords, kv)

\* C15: when no direct latitude / longitude field is accepted and the
\* key-value boundary points hold an accepted latitude and an accepted
\* longitude, the resolved latitude is (min + max) / 2 of the boundary
\* latitudes and the resolved longitude (min + max) / 2 of the boundary
\* longitudes.
C15_Midpoint ==
    /\ KeyValuesDone
    /\ DirectAccepted("latitude", AcceptedLat) = {}
    /\ DirectAccepted("longitude", AcceptedLon) = {}
    /\ Lats(KvBoundary) # {} /\ Lons(KvBoundary) # {}
    => /\ project.latitude # None /\ project.longitude # None
       /\ 2 * project.latitude[1] = MinOf(Lats(KvBoundary)) + MaxOf(Lats(KvBoundary))
       /\ 2 * project.longitude[1] = MinOf(Lons(KvBoundary)) + MaxOf(Lons(KvBoundary))

\* north = (13.4, 77.6) and south = (13.2, 77.4) returned as (13.3, 77.5)
C15_Witness ==
    /\ Returned
    /\ DirectAccepted("latitude", AcceptedLat) = {}
    /\ DirectAccepted("longitude", AcceptedLon) = {}
    /\ Lats(KvBoundary) = {1340, 1320} /\ Lons(KvBoundary) = {7760, 7740}
    /\ project.latitude = <<1330>> /\ project.longitude = <<7750>>

\* the pairs whose key names direction dir
PairsOfDirection(dir) == {i \in 1..Len(kv) : KeyHas(kv[i].key, dir)}

\* C16: a pair whose key holds a direction d and "latitude" and whose value
\* reads <a><Direction> Longitude:<b> gives boundary point d the latitude a if
\* a is an accepted latitude and the longitude b if b is an accepted
\* longitude, each on its own; it sets neither when neither is accepted.
C16_Combined ==
    KeyValuesDone =>
        \A i \in 1..Len(kv) :
            \A dir \in {"north", "east", "west", "south"} :
                /\ PairsOfDirection(dir) = {i}
                /\ KeyHas(kv[i].key, "latitude")
                /\ \A other \in {"north", "east", "west", "south"} \ {dir} :
                      ~KeyHas(kv[i].key, other)
                /\ CombinedMatch(kv[i].value) # <<>>
                => LET a == FloatValue(CombinedMatch(kv[i].value)[1])
                       b == FloatValue(CombinedMatch(kv[i].value)[2])
                   IN /\ boundary_coords[Slot(dir, "lat")] = IF AcceptedLat(a) THEN <<a>> ELSE None
                      /\ boundary_coords[Slot(dir, "lon")] = IF AcceptedLon(b) THEN <<b>> ELSE None

\* the pair 0East Longitude:77.8 gave the east point its longitude and no latitude
C16_Witness ==
    /\ ppc = "text_simple"
    /\ \E i \in 1..Len(kv) :
          /\ kv[i].key = <<"east", "latitude">>
          /\ CombinedMatch(kv[i].value) # <<>>
    /\ boundary_coords.east_lat = None
    /\ boundary_coords.east_lon = <<7780>>

\* C17: when the direct latitude and longitude fields both hold accepted
\* values, the returned pair is those two values, whatever the boundary
\* fields and the body text hold.
C17_DirectWins ==
    /\ Returned
    /\ DirectAccepted("latitude", AcceptedLat) # {}
    /\ DirectAccepted("longitude", AcceptedLon) # {}
    => /\ project.latitude # None /\ project.latitude[1] \in DirectAccepted("latitude", AcceptedLat)
       /\ project.longitude # None /\ project.longitude[1] \in DirectAccepted("longitude", AcceptedLon)

\* the direct fields won over boundary fields that give another centre
C17_Witness ==
    /\ Returned
    /\ DirectAccepted("latitude", AcceptedLat) = {1320}
    /\ DirectAccepted("longitude", AcceptedLon) = {7740}
    /\ Lats(KvBoundary) = {1340} /\ Lons(KvBoundary) = {7760}
    /\ project.latitude = <<1320>> /\ project.longitude = <<7740>>

\* some key-value field, direct or boundary, produced an accepted coordinate value
KeyValuesYielded ==
    \/ DirectAccepted("latitude", AcceptedLat) # {}
    \/ DirectAccepted("longitude", AcceptedLon) # {}
    \/ Lats(KvBoundary) # {} \/ Lons(KvBoundary) # {}

\* C18: when a key-value field produced an accepted coordinate value, the
\* body-text steps leave the latitude and the longitude as the key-value
\* steps resolved them.
C18_TextStepsIdle ==
    ppc \in {"text_simple", "text_boundary"} /\ KeyValuesYielded =>
        /\ project'.latitude = project.latitude
        /\ project'.longitude = project.longitude

C18_NoMerging == [][C18_TextStepsIdle]_vars

(***************************************************************************)
(* Properties of the defaults of parse_project_from_json.                  *)
(***************************************************************************)
StringFields ==
    {"filename", "project_name", "description", "type", "status", "start_date",
     "completion_date", "address", "district", "taluk", "pin_code", "approving_authority",
     "plan_number", "approval_date", "water_source"}

NumericFields ==
    {"total_plots", "covered_area", "parks_count", "parks_area", "ca_sites_count", "ca_area",
     "roads_area", "open_area", "land_area", "cost_land", "cost_development", "total_cost"}

\* the documented default of a field: the empty string, 0, None or the empty list
DocumentedDefault(field) ==
    CASE field \in StringFields -> <<>>
      [] field \in NumericFields -> 0
      [] field \in {"latitude", "longitude"} -> None
      [] field \in {"plot_types", "plots"} -> <<>>

\* the body text gives an accepted value to the coordinate of label
TextAccepted(label, Accepted(_)) ==
    \/ /\ SimpleNumber(all_text, label) # <<>>
       /\ ~FloatRaises(SimpleNumber(all_text, label)[1])
       /\ Accepted(FloatValue(SimpleNumber(all_text, label)[1]))
    \/ \E dir \in DirectionWords :
          /\ BoundaryNumber(all_text, dir, label) # <<>>
          /\ ~FloatRaises(BoundaryNumber(all_text, dir, label)[1])
          /\ Accepted(FloatValue(BoundaryNumber(all_text, dir, label)[1]))

\* a source of the field succeeds on the record of the call: its key-value
\* pair is there, its pattern matches the body text, a section or a table
\* gives it, a coordinate candidate is accepted
Succeeds(field) ==
    LET Pair(key) == HasKey(kv, key)
        plan_text == IF Pair(<<"approved", "plan", "number">>)
                     THEN Spell(Get(kv, <<"approved", "plan", "number">>)) ELSE <<>>
    IN CASE field = "filename" -> json_data.source_file # <<>>
         [] field = "project_name" -> Pair(<<"project", "name">>) \/ json_data.project_name # None
         [] field = "description" ->
                \/ Pair(<<"description">>)
                \/ LazyGroup(all_text, "Project Description", {"Project Type", "Project Status"},
                             TRUE) # <<>>
         [] field = "type" ->
                \/ Pair(<<"project", "type">>)
                \/ LazyGroup(all_text, "Project Type", {"Project Status"}, FALSE) # <<>>
         [] field = "status" ->
                \/ Pair(<<"project", "status">>)
                \/ LazyGroup(all_text, "Project Status",
                             {"Start Date", "Proposed", "Proposed Completion Date"}, FALSE) # <<>>
         [] field = "start_date" ->
                Pair(<<"project", "start", "date">>) \/ LabelledDate(all_text, "Start Date") # <<>>
         [] field = "completion_date" ->
                \/ Pair(<<"project", "start", "date">>)
                \/ LabelledDate(all_text, "Proposed Completion Date") # <<>>
         [] field = "address" -> Pair(<<"project", "address">>)
         [] field = "district" -> Pair(<<"district">>)
         [] field = "taluk" -> Pair(<<"taluk">>)
         [] field = "pin_code" -> Pair(<<"pin", "code">>)
         [] field = "latitude" ->
                \/ DirectAccepted("latitude", AcceptedLat) # {}
                \/ Lats(KvBoundary) # {}
                \/ TextAccepted("Latitude", AcceptedLat)
         [] field = "longitude" ->
                \/ DirectAccepted("longitude", AcceptedLon) # {}
                \/ Lons(KvBoundary) # {}
                \/ TextAccepted("Longitude", AcceptedLon)
         [] field = "approving_authority" -> Pair(<<"approving", "authority">>)
         [] field = "plan_number" -> PlanMatch(plan_text) # <<>>
         [] field = "approval_date" -> ApprovalMatch(plan_text) # <<>>
         [] field = "water_source" ->
                \/ Pair(<<"source", "of", "water">>)
                \/ LazyGroup(all_text, "Source of Water", {",", "\n"}, FALSE) # <<>>
         [] field = "total_plots" ->
                \/ Pair(<<"number", "of", "plots">>)
                \/ LabelledCount(all_text, "Total Number of Sites/Plots") # <<>>
         [] field = "cost_land" ->
                \/ FigureMatch(all_text, field) # <<>>
                \/ SectionCost(json_data.sections) # None
         [] field \in NumericFields \ {"total_plots", "cost_land"} ->
                FigureMatch(all_text, field) # <<>>
         [] field = "plot_types" ->
                \E t \in 1..Len(json_data.detected_tables) :
                    PlotTypeTable(json_data.detected_tables[t])
         [] field = "plots" ->
                \E t \in 1..Len(json_data.detected_tables) :
                    PlotTable(json_data.detected_tables[t])

\* the file name of the record without ".pdf", its underscores turned into spaces
NameOfFile ==
    UnderscoresToSpaces(RemoveSub(Spell(json_data.source_file), Spelling[".pdf"]))

PageRecordsOf(n) ==
    {i \in 1..Len(document.extracted_pages) : document.extracted_pages[i].page_number = n}

\* a page record without headings, pairs, paragraphs and lists
EmptyPageRecord(page) ==
    /\ page.headings = <<>>
    /\ page.key_value_pairs = EmptyDict
    /\ page.paragraphs = <<>>
    /\ page.lists = <<>>

\* C21: a returned document holds exactly one page record for every page counted
\* in metadata.total_pages, an empty one for a page without text, so the number
\* of page records equals metadata.total_pages.
C21_OnePageRecordPerPage ==
    dpc = "done" =>
       /\ Len(document.extracted_pages) = document.metadata.total_pages
       /\ \A n \in 1..document.metadata.total_pages :
             /\ Cardinality(PageRecordsOf(n)) = 1
             /\ document.raw_text_by_page[n] = <<>> =>
                   \A i \in PageRecordsOf(n) : EmptyPageRecord(document.extracted_pages[i])

\* on the OCR path every page, a failed one included, has its page record
C21_OcrPagesKept ==
    (dpc = "done" /\ ocr_pages # <<>>) =>
       /\ Len(document.extracted_pages) = document.metadata.total_pages
       /\ \A n \in 1..Len(pdf) : Cardinality(PageRecordsOf(n)) = 1

\* a text document of two pages, the second without characters, returned with
\* two pages counted and one page record
C21_PageWithoutRecord ==
    /\ dpc = "done"
    /\ ocr_pages = <<>>
    /\ Len(pdf) = 2 /\ pdf[2].chars = <<>>
    /\ document.metadata.total_pages = 2
    /\ Len(document.extracted_pages) = 1


(***************************************************************************)
(* Properties of the if / elif chain of the line loop.                     *)
(***************************************************************************)
\* the text begins with a bullet glyph, an asterisk or a dash, or with a digit
\* and a dot, and whitespace follows
BeginsWithMarker(text) ==
    \/ Len(text) >= 2 /\ text[1] \in {BulletChar, "*", "-"} /\ text[2] \in WhiteChars
    \/ Len(text) >= 3 /\ text[1] \in DigitChars /\ text[2] = "." /\ text[3] \in WhiteChars

\* C22: a non-heading line without ":", " - " or an arrow that begins with a
\* bullet glyph, an asterisk, a dash or a digit and a dot, followed by whitespace,
\* is appended to the list buffer and not to the paragraph buffer.
C22_MarkedLinesAreListItems ==
    [][(/\ LineRead
        /\ ~asm'.line_info.is_heading
        /\ ~IsKeyValueLine(LineText(asm'.line_info))
        /\ BeginsWithMarker(LineText(asm'.line_info)))
       => /\ asm'.current_list = Append(asm.current_list, LineText(asm'.line_info))
          /\ asm'.current_paragraph # Append(asm.current_paragraph, LineText(asm'.line_info))]_vars

\* the same for the lines that begin with a bullet glyph, an asterisk or a dash
C22_GlyphLinesAreListItems ==
    [][(/\ LineRead
        /\ ~asm'.line_info.is_heading
        /\ ~IsKeyValueLine(LineText(asm'.line_info))
        /\ BeginsWithMarker(LineText(asm'.line_info))
        /\ LineText(asm'.line_info)[1] \notin DigitChars)
       => /\ asm'.current_list = Append(asm.current_list, LineText(asm'.line_info))
          /\ asm'.current_paragraph # Append(asm.current_paragraph, LineText(asm'.line_info))]_vars

\* the line "1. x" was read first and lies in the paragraph buffer
C22_NumberedLineInParagraph ==
    /\ pc = "lines"
    /\ page_lines = << [text |-> <<"1", ".", " ", "x">>, is_heading |-> FALSE] >>
    /\ asm.current_list = <<>>
    /\ asm.current_paragraph = << <<"1", ".", " ", "x">> >>


(***************************************************************************)
(* Properties of detect_heading.                                           *)
(***************************************************************************)
\* the conditions of the statement on the arguments of a call
HeadingExpected(text, font_size, is_bold) ==
    LET trimmed == StripChars(text, WhiteChars)
    IN /\ trimmed # <<>>
       /\ Len(trimmed) < 80
       /\ \/ IsUpper(trimmed) /\ Len(trimmed) > 3
          \/ is_bold
          \/ font_size # None /\ font_size[1] > 1200

\* C23: detect_heading returns true exactly when the trimmed text is non-empty,
\* shorter than 80 characters, and fully upper-case with more than 3 characters,
\* or bold, or of a font size that is given and above 12; a text of 80 or more
\* characters is never a heading.
C23_HeadingExactly ==
    fpc = "heading_done" =>
       /\ fresult = HeadingExpected(fargs.text, fargs.font_size, fargs.is_bold)
       /\ Len(StripChars(fargs.text, WhiteChars)) >= 80 => fresult = FALSE

\* a bold text of 79 characters came back as a heading
C23_Witness ==
    /\ fpc = "heading_done"
    /\ Len(fargs.text) = 79
    /\ fargs.is_bold /\ fargs.font_size = None /\ ~IsUpper(fargs.text)
    /\ fresult = TRUE


(***************************************************************************)
(* Properties of the batch loops.                                          *)
(***************************************************************************)
\* the step is one iteration of the loop of the running program
FileStep == bpc = "loop" /\ file_idx' = file_idx + 1

\* the file name the step is about
StepFile == pdf_files[file_idx]

\* an S3 request of the step failed before any conversion (the existence check
\* when skip_existing is set and the JSON is there, the download otherwise)
RequestFailed ==
    /\ program = "s3"
    /\ converted' = converted
    /\ stats'.pdfs_skipped = stats.pdfs_skipped
    /\ stats'.pdfs_failed = stats.pdfs_failed + 1

\* an iteration with skip_existing set on a file whose JSON exists converts
\* nothing, leaves the store as it is and counts the file as skipped
SkipsExisting ==
    (FileStep /\ skip_existing /\ json_store[StepFile] # <<>> /\ ~RequestFailed) =>
       /\ converted' = converted
       /\ json_store' = json_store
       /\ stats'.pdfs_skipped = stats.pdfs_skipped + 1
       /\ stats'.pdfs_failed = stats.pdfs_failed
       /\ stats'.pdfs_processed = stats.pdfs_processed

\* an iteration with skip_existing unset converts the file, whether its JSON
\* exists or not, and skips nothing
ConvertsAgain ==
    (FileStep /\ ~skip_existing /\ ~RequestFailed) =>
       /\ converted' = Append(converted, StepFile)
       /\ stats'.pdfs_skipped = stats.pdfs_skipped

\* a failed S3 request leaves the store as it is
FailedRequestKeepsStore == (FileStep /\ RequestFailed) => json_store' = json_store

\* a run with skip_existing set that followed a run without failures has
\* converted nothing, changed nothing and counted every file as skipped
ResumedRun ==
    (/\ bpc = "done" /\ run_no = 2 /\ skip_existing
     /\ run_start.before.pdfs_failed = 0
     /\ stats.pdfs_failed = 0) =>
       /\ converted = <<>>
       /\ json_store = run_start.store
       /\ stats.pdfs_skipped = Len(pdf_files)
       /\ stats.pdfs_processed = 0

RECURSIVE Ascending(_)
Ascending(S) == IF S = {} THEN <<>> ELSE <<MinOf(S)>> \o Ascending(S \ {MinOf(S)})

\* the positions of the lines of a kind among the lines read
LinesOfKind(kind) == {i \in 1..Len(page_lines) : LineKind(page_lines[i]) = kind}

\* no line of a kind in breakers lies from position i to position j
Unbroken(i, j, breakers) == \A k \in i..j : LineKind(page_lines[k]) \notin breakers

\* the runs of the lines of a kind: a run starts at a line of the kind that no
\* earlier line of the kind reaches unbroken, and holds the texts of the lines
\* of the kind it reaches unbroken, in line order
RunsOfKind(kind, breakers) ==
    LET members == LinesOfKind(kind)
        starts == Ascending({i \in members :
                               \A j \in members : j < i => ~Unbroken(j, i, breakers)})
    IN [n \in 1..Len(starts) |->
          LET run == Ascending({j \in members : j >= starts[n] /\ Unbroken(starts[n], j, breakers)})
          IN [m \in 1..Len(run) |-> LineText(page_lines[run[m]])]]

\* C25: when a page has been processed, its paragraphs are the single-space
\* joins of the runs of paragraph lines that no heading or list line separates
\* and its lists are the runs of list lines that no heading or paragraph line
\* separates, in line order, so that every paragraph line and every list line
\* lies in exactly one of them; both buffers are empty when the next page starts.
C25_RunsOfParagraphsAndLists ==
    (pc = "pages" /\ page_lines # <<>>) =>
       LET page == asm.result.extracted_pages[1]
           paragraph_runs == RunsOfKind("paragraph", {"heading", "list"})
           list_runs == RunsOfKind("list", {"heading", "paragraph"})
       IN /\ page.paragraphs = [n \in 1..Len(paragraph_runs) |-> JoinSpace(paragraph_runs[n])]
          /\ page.lists = list_runs
          /\ BeginPage(asm, 2).current_paragraph = <<>>
          /\ BeginPage(asm, 2).current_list = <<>>

\* a page of a list line between two list-separated runs of paragraph lines and
\* a second list after them has been processed
C25_Witness ==
    /\ pc = "pages"
    /\ Len(page_lines) = 5
    /\ [i \in 1..5 |-> LineKind(page_lines[i])]
          = <<"paragraph", "list", "paragraph", "key_value", "list">>
    /\ Len(asm.result.extracted_pages[1].paragraphs) = 2
    /\ Len(asm.result.extracted_pages[1].lists) = 2


\* the three counters of the files
FileCounters == {"pdfs_processed", "pdfs_skipped", "pdfs_failed"}

Counted == stats.pdfs_processed + stats.pdfs_skipped + stats.pdfs_failed

\* the files iterated so far are counted, and a finished run has iterated them all
CountersAddUp ==
    /\ bpc \in {"loop", "done"} => Counted = file_idx - 1
    /\ bpc = "done" => Counted = Len(pdf_files)

\* an iteration raises exactly one of the three counters by one, whatever
\* failed in it, and the loop goes on with the next file
CountedOnce ==
    FileStep =>
       /\ \E counter \in FileCounters :
             /\ stats'[counter] = stats[counter] + 1
             /\ \A other \in FileCounters \ {counter} : stats'[other] = stats[other]
       /\ bpc' = "loop"

\* C29: after a run of one of the three batch loops on a fresh processor every
\* iterated file is counted in exactly one of processed, skipped and failed, so
\* the three counters add up to the number of files iterated, whatever was
\* skipped or failed, and a failure on one file does not end the loop.
C29_CountersPartitionFiles == [](CountersAddUp) /\ [][CountedOnce]_vars

\* a run of the S3 loop over two files has ended with one file failed and one skipped
C29_Witness ==
    /\ bpc = "done" /\ program = "s3" /\ run_no = 1
    /\ Len(pdf_files) = 2
    /\ stats.pdfs_failed = 1 /\ stats.pdfs_skipped = 1 /\ stats.pdfs_processed = 0

(***************************************************************************)
(* Properties of extract_key_value_pairs.                                  *)
(***************************************************************************)
\* the trimmed raw key and value the patterns find in the text of the call
RawPair ==
    IF Pattern1Match(fargs.text) # <<>> THEN Pattern1Match(fargs.text)
    ELSE Pattern2Match(fargs.text, 1)

\* the call returned, on a text with a pair whose value and cleaned key are not empty
PairReturned ==
    /\ fpc = "pairs_done"
    /\ RawPair # <<>>
    /\ RawPair[1].value # <<>>
    /\ CleanKey(RawPair[1].key) # <<>>

\* C26: a pair with a non-empty value and a non-empty normalized key is
\* discarded if and only if its trimmed raw key is longer than 100 characters:
\* a key of 100 characters is kept, a key of 101 characters is discarded.
C26_KeyLongerThan100 ==
    PairReturned => ((fresult = EmptyDict) <=> (Len(RawPair[1].key) > 100))

\* such a pair is discarded if and only if its raw key has 100 characters or more
C26_KeyOf100OrMore ==
    PairReturned => ((fresult = EmptyDict) <=> (Len(RawPair[1].key) >= 100))

\* a call on a key of 100 word characters, a colon and a value returned no pair
C26_KeyOf100Discarded ==
    /\ PairReturned
    /\ fargs.text = Filler(100) \o <<":", "v">>
    /\ fresult = EmptyDict


(***************************************************************************)
(* Properties of the plot tables of parse_project_from_json.               *)
(***************************************************************************)
KeptPlotType(plot_type) == plot_type.type # <<>> /\ plot_type.number > 0

KeptPlot(plot) == plot.plot_no # <<>>

\* the entries of every data row of the plot-type tables, the first included
RECURSIVE EveryPlotTypeRow(_)
EveryPlotTypeRow(detected) ==
    IF detected = <<>> THEN <<>>
    ELSE LET table == Head(detected)
             rows == IF PlotTypeTable(table)
                     THEN SelectSeq([i \in 1..Len(table.data) |-> PlotType(table.data[i])],
                                    KeptPlotType)
                     ELSE <<>>
         IN rows \o EveryPlotTypeRow(Tail(detected))

\* the entries of every data row of the individual-plot tables, the first included
RECURSIVE EveryPlotRow(_)
EveryPlotRow(detected) ==
    IF detected = <<>> THEN <<>>
    ELSE LET table == Head(detected)
             rows == IF PlotTable(table)
                     THEN SelectSeq([i \in 1..Len(table.data) |-> Plot(table.data[i])], KeptPlot)
                     ELSE <<>>
         IN rows \o EveryPlotRow(Tail(detected))

\* C27: every data row of a plot-type table, the first included, with a
\* non-empty type and a positive number of sites gives one entry of plot_types,
\* and every data row of an individual-plot table with a non-empty plot number
\* gives one entry of plots, in row order.
C27_EveryDataRow ==
    ppc \in {"cleanup", "done"} =>
       /\ project.plot_types = EveryPlotTypeRow(json_data.detected_tables)
       /\ project.plots = EveryPlotRow(json_data.detected_tables)

\* a call on the plot-type table with the data rows (1, 30x40, 12), (2, 30x40, 8)
\* and (3, no type, 5) returned the entry of the second row only
C27_FirstRowSkipped ==
    /\ ppc = "done"
    /\ json_data.detected_tables # <<>>
    /\ PlotTypeTable(json_data.detected_tables[1])
    /\ Len(json_data.detected_tables[1].data) = 3
    /\ KeptPlotType(PlotType(json_data.detected_tables[1].data[1]))
    /\ Len(project.plot_types) = 1
    /\ project.plot_types[1].sl_no = <<"2">>


(***************************************************************************)
(* Properties of the lines the line loop keeps.                            *)
(***************************************************************************)
\* the step stored a pair of the text in the key-value pairs of the page
PairStored(text) ==
    /\ extract_key_value_pairs(text) # EmptyDict
    /\ \A key \in DOMAIN extract_key_value_pairs(text) :
          /\ key \in DOMAIN asm'.page_content.key_value_pairs
          /\ asm'.page_content.key_value_pairs[key] = extract_key_value_pairs(text)[key]

\* C28: every non-empty line that is no heading gives its text to a key-value
\* pair, to the list buffer or to the paragraph buffer of the page, also when it
\* holds a separator and no pair can be extracted from it.
C28_NoLineDropped ==
    [][(LineRead /\ LineKind(asm'.line_info) \notin {"blank", "heading"}) =>
          \/ PairStored(LineText(asm'.line_info))
          \/ asm'.current_list = Append(asm.current_list, LineText(asm'.line_info))
          \/ asm'.current_paragraph = Append(asm.current_paragraph, LineText(asm'.line_info))]_vars

\* the same for the lines without ":", " - " and arrow
C28_PlainLinesKept ==
    [][(LineRead /\ LineKind(asm'.line_info) \in {"list", "paragraph"}) =>
          \/ asm'.current_list = Append(asm.current_list, LineText(asm'.line_info))
          \/ asm'.current_paragraph = Append(asm.current_paragraph, LineText(asm'.line_info))]_vars

\* a page of the one line "k: " has been processed and its record is empty
C28_LineWithoutPairDropped ==
    /\ pc = "pages"
    /\ page_lines = << [text |-> <<"k", ":", " ">>, is_heading |-> FALSE] >>
    /\ asm.result.extracted_pages[1] = NewPageContent(1)
    /\ asm.result.key_value_pairs = EmptyDict

\* C30: the range check on the centre never rejects. Whenever the boundary
\* points hold an accepted latitude and an accepted longitude, the midpoint of
\* the lowest and the highest latitude lies strictly between 10 and 17 and
\* that of the longitudes strictly between 73 and 79; and when no direct
\* latitude field was accepted, the project then holds both coordinates, each
\* the midpoint of its boundary values, never one of them alone.
C30_CentreNeverRejected ==
    /\ KeyValuesDone
    /\ Lats(boundary_coords) # {} /\ Lons(boundary_coords) # {}
    => LET lat2 == MinOf(Lats(boundary_coords)) + MaxOf(Lats(boundary_coords))
           lon2 == MinOf(Lons(boundary_coords)) + MaxOf(Lons(boundary_coords))
       IN /\ 2 * 100 * LatLow < lat2 /\ lat2 < 2 * 100 * LatHigh
          /\ 2 * 100 * LonLow < lon2 /\ lon2 < 2 * 100 * LonHigh
          /\ DirectAccepted("latitude", AcceptedLat) = {}
             => /\ project.latitude # None /\ project.longitude # None
                /\ lat2 \div 2 = project.latitude[1]
                /\ lon2 \div 2 = project.longitude[1]

\* the west point alone, (16.98, 78.98), next to the upper ends of both ranges,
\* and a direct longitude that the centre replaced
C30_Witness ==
    /\ Returned
    /\ DirectAccepted("latitude", AcceptedLat) = {}
    /\ DirectAccepted("longitude", AcceptedLon) = {7740}
    /\ Lats(boundary_coords) = {1698} /\ Lons(boundary_coords) = {7898}
    /\ project.latitude = <<1698>> /\ project.longitude = <<7898>>

====
